---- MODULE Spec2Model ----
(***************************************************************************)
(* autom8: task store, branching planner, worktree orchestrator and the    *)
(* accept / delete lifecycle commands of src/main.go, as a state machine.  *)
(*                                                                         *)
(* Strings are sequences of tokens.  The tokens are "task", "-", "autom8/" *)
(* and the decimal digits "0".."9"; the empty string is << >>.  A task id  *)
(* "task-7" is <<"task","-","7">>, the instance name "task-7-1-2" is       *)
(* <<"task","-","7","-","1","-","2">>.                                     *)
(***************************************************************************)
EXTENDS Integers, Sequences, FiniteSets, TLC

VARIABLES
    tasks,      \* .autom8/tasks.json: sequence of [ID, DependsOn, Status]
    clock,      \* last value time.Now().UnixNano() returned to runFeature
    worktrees,  \* .autom8/worktrees/: instance name -> [branch checked out in it,
                \*   task of the goroutine that created it]
    branches,   \* git branches: branch name -> branch it was started from (<< >> = HEAD)
    pids,       \* .autom8/pids.json: instance name -> pid
    procs,      \* the process table: pid -> instance name of the agent that holds the
                \*   pid (<< >>: a process that is no agent of ours)
    runs,       \* implement runs that launched goroutines so far
    phase,      \* "idle" | "running" (an implement command is between launch and return)
    units,      \* the goroutines of the current / last implement run
    chanLen,    \* number of results buffered in the results channel
    chanCap,    \* capacity of the results channel
    closed,     \* the results channel was closed
    reported,   \* results the collector loop has printed
    last,       \* outcome of the last command: [cmd, arg, err, log]
    faults      \* failed or ineffective steps so far

vars == <<tasks, clock, worktrees, branches, pids, procs, runs,
          phase, units, chanLen, chanCap, closed, reported, last, faults>>

store == <<tasks, clock>>
git   == <<worktrees, branches>>
live  == <<pids, procs, runs>>
run   == <<phase, units, chanLen, chanCap, closed, reported>>

(***************************************************************************)
(* Bounds                                                                  *)
(***************************************************************************)
MaxTasks  == 2      \* feature invocations that create a task
MaxN      == 2      \* largest value of the -n flag
MaxUnits  == 2      \* largest plan an implement run launches
MaxRuns   == 2      \* implement runs that launch goroutines
MaxFaults == 1      \* steps of one behaviour that fail, or end without effect
MaxPlanTasks == 3   \* tasks in the lists the planner is applied to
MaxPlanN  == 3      \* largest value of the -n flag given to the planner
MaxClock  == 3      \* values the wall clock shows to feature in the task store alone
MaxStoreTasks == 3  \* length of the task list in the task store alone
MaxPid    == 2      \* pids the system hands out in the liveness probe alone

(***************************************************************************)
(* Strings                                                                 *)
(***************************************************************************)
Digit(d) == CASE d = 0 -> "0" [] d = 1 -> "1" [] d = 2 -> "2" [] d = 3 -> "3"
              [] d = 4 -> "4" [] d = 5 -> "5" [] d = 6 -> "6" [] d = 7 -> "7"
              [] d = 8 -> "8" [] d = 9 -> "9"

RECURSIVE Itoa(_)
\* fmt.Sprintf("%d", n) for n >= 0
Itoa(n) == IF n < 10 THEN <<Digit(n)>> ELSE Itoa(n \div 10) \o <<Digit(n % 10)>>

\* fmt.Sprintf("task-%d", now)
TaskID(now) == <<"task", "-">> \o Itoa(now)

\* Numbering the instances from 0.
SuffixFromZero(i) == <<"-">> \o Itoa(i - 1)

\* fmt.Sprintf("-%d", i+1), with i+1 passed as i
Suffix(i) == <<"-">> \o Itoa(i)

\* Dropping the parent's lineage from the child's suffix.
ChildSuffixFlat(depSuffix, i) == <<"-">> \o Itoa(i)

\* fmt.Sprintf("%s-%d", depSuffix, i+1)
ChildSuffix(depSuffix, i) == depSuffix \o <<"-">> \o Itoa(i)

\* fmt.Sprintf("autom8/%s", instanceID)
BranchName(instanceID) == <<"autom8/">> \o instanceID

\* strings.LastIndex(s, "-"), 1-based; 0 when there is no "-"
LastDash(s) ==
    LET at == {i \in 1..Len(s) : s[i] = "-"}
    IN  IF at = {} THEN 0 ELSE CHOOSE i \in at : \A j \in at : j <= i

\* runAccept: taskID := worktreeName[:lastDash] when lastDash > 0 (0-based)
OwnerTaskID(worktreeName) ==
    LET lastDash == LastDash(worktreeName)
    IN  IF lastDash > 1 THEN SubSeq(worktreeName, 1, lastDash - 1) ELSE worktreeName

(***************************************************************************)
(* Maps                                                                    *)
(***************************************************************************)
Put(f, k, v) == [x \in DOMAIN f \cup {k} |-> IF x = k THEN v ELSE f[x]]
Drop(f, k)   == [x \in DOMAIN f \ {k} |-> f[x]]
EmptyMap     == << >>

(***************************************************************************)
(* Inputs                                                                  *)
(***************************************************************************)
NoString == << >>
AllIDs   == {TaskID(n) : n \in 1..MaxTasks}
Level1   == {Suffix(i) : i \in 1..MaxN}
Level2   == {ChildSuffix(s, i) : s \in Level1, i \in 1..MaxN}
AllNames == {id \o s : id \in AllIDs, s \in Level1 \cup Level2}

Rank(status) == CASE status = "pending" -> 0
                  [] status = "in-progress" -> 1
                  [] status = "completed" -> 2

IDsOf(ts) == {ts[i].ID : i \in 1..Len(ts)}

\* first index whose ID is id, 0 if none
IndexOf(ts, id) ==
    LET at == {i \in 1..Len(ts) : ts[i].ID = id}
    IN  IF at = {} THEN 0 ELSE CHOOSE i \in at : \A j \in at : i <= j

Outcome(cmd, arg, err, log) == [cmd |-> cmd, arg |-> arg, err |-> err, log |-> log]

\* a step that ends in an error, or a command that ends without effect, is
\* charged to the budget
Charge(bad) == /\ (bad => faults < MaxFaults)
               /\ faults' = IF bad THEN faults + 1 ELSE faults

Init ==
    /\ tasks = << >>
    /\ clock = 0
    /\ worktrees = EmptyMap
    /\ branches = EmptyMap
    /\ pids = EmptyMap
    /\ procs = EmptyMap
    /\ runs = 0
    /\ phase = "idle"
    /\ units = << >>
    /\ chanLen = 0
    /\ chanCap = 0
    /\ closed = FALSE
    /\ reported = 0
    /\ last = Outcome("none", NoString, "", << >>)
    /\ faults = 0

\* the implement process has returned: its goroutines and channel are gone
ClearRun ==
    /\ phase' = "idle"
    /\ units' = << >>
    /\ chanLen' = 0
    /\ chanCap' = 0
    /\ closed' = FALSE
    /\ reported' = 0

(***************************************************************************)
(* feature                                                                 *)
(***************************************************************************)
\* runFeature; f is the step that fails ("none": nothing fails), now the value
\* time.Now().UnixNano() returns, cap the largest value explored
RunFeatureAt(prompt, dependsOn, f, now, cap) ==
    /\ phase = "idle"
    /\ Charge(f # "none" \/ prompt = ""
              \/ (dependsOn # NoString /\ dependsOn \notin IDsOf(tasks)))
    /\ ClearRun
    /\ UNCHANGED <<git, live>>
    /\ IF f = "git" THEN
            /\ dependsOn = NoString
            /\ last' = Outcome("feature", NoString, "git", << >>)
            /\ UNCHANGED store
       ELSE IF prompt = "" THEN
            /\ f = "none" /\ dependsOn = NoString
            /\ last' = Outcome("feature", NoString, "noprompt", << >>)
            /\ UNCHANGED store
       ELSE IF f = "load" THEN
            /\ dependsOn = NoString
            /\ last' = Outcome("feature", NoString, "load", << >>)
            /\ UNCHANGED store
       ELSE IF dependsOn # NoString /\ dependsOn \notin IDsOf(tasks) THEN
            /\ f = "none"
            /\ last' = Outcome("feature", dependsOn, "nodep", << >>)
            /\ UNCHANGED store
       ELSE /\ now <= cap
            /\ clock' = now
            /\ IF f = "save" THEN
                    /\ last' = Outcome("feature", dependsOn, "save", << >>)
                    /\ UNCHANGED tasks
               ELSE /\ tasks' = Append(tasks, [ID |-> TaskID(now),
                                               DependsOn |-> dependsOn,
                                               Status |-> "pending"])
                    /\ last' = Outcome("feature", TaskID(now), "", << >>)

\* runFeature under a clock that advances between any two invocations
RunFeature(prompt, dependsOn, f) ==
    RunFeatureAt(prompt, dependsOn, f, clock + 1, MaxTasks)

Feature ==
    \E prompt \in {"", "p"}, dependsOn \in {NoString} \cup AllIDs,
       f \in {"none", "git", "load", "save"} :
        RunFeature(prompt, dependsOn, f)

(***************************************************************************)
(* delete                                                                  *)
(***************************************************************************)
\* Naming the first dependent only.
OneDependent(ts, taskID) ==
    LET deps == SelectSeq(ts, LAMBDA t : t.DependsOn = taskID)
    IN  IF deps = << >> THEN << >> ELSE <<deps[1].ID>>

\* Not looking for dependents at all.
NoDependents(ts, taskID) == << >>

\* the ids of the tasks whose DependsOn is taskID, in list order
Dependents(ts, taskID) ==
    LET deps == SelectSeq(ts, LAMBDA t : t.DependsOn = taskID)
    IN  [i \in 1..Len(deps) |-> deps[i].ID]

\* Cutting the list at the task.
RemoveFrom(ts, taskIndex) == SubSeq(ts, 1, taskIndex - 1)

\* append(tasks[:taskIndex], tasks[taskIndex+1:]...)
RemoveAt(ts, taskIndex) ==
    SubSeq(ts, 1, taskIndex - 1) \o SubSeq(ts, taskIndex + 1, Len(ts))

\* runDelete; f is the step that fails
RunDelete(taskID, f) ==
    /\ phase = "idle"
    /\ Charge(f # "none" \/ IndexOf(tasks, taskID) = 0
              \/ Len(Dependents(tasks, taskID)) > 0)
    /\ ClearRun
    /\ UNCHANGED <<clock, git, live>>
    /\ LET taskIndex  == IndexOf(tasks, taskID)
           dependents == Dependents(tasks, taskID)
       IN  IF f \in {"git", "load"} THEN
                /\ last' = Outcome("delete", taskID, f, << >>)
                /\ UNCHANGED tasks
           ELSE IF taskIndex = 0 THEN
                /\ f = "none"
                /\ last' = Outcome("delete", taskID, "notfound", << >>)
                /\ UNCHANGED tasks
           ELSE IF Len(dependents) > 0 THEN
                /\ f = "none"
                /\ last' = Outcome("delete", taskID, "dependents", dependents)
                /\ UNCHANGED tasks
           ELSE IF f = "save" THEN
                /\ last' = Outcome("delete", taskID, "save", << >>)
                /\ UNCHANGED tasks
           ELSE /\ tasks' = RemoveAt(tasks, taskIndex)
                /\ last' = Outcome("delete", taskID, "", << >>)

Delete ==
    \E taskID \in AllIDs, f \in {"none", "git", "load", "save"} : RunDelete(taskID, f)

(***************************************************************************)
(* accept                                                                  *)
(***************************************************************************)
\* runAccept: the first task whose ID is taskID becomes completed
MarkCompleted(ts, taskID) ==
    LET i == IndexOf(ts, taskID)
    IN  IF i = 0 THEN ts ELSE [ts EXCEPT ![i].Status = "completed"]

\* Going on without a repository root.
AcceptErrorUnrooted(worktreeName, f) ==
    IF worktreeName \notin DOMAIN worktrees THEN "notfound"
    ELSE IF f \in {"branch", "status", "add", "commit", "merge", "remove"} THEN f
    ELSE ""

\* the error runAccept returns, "" when it reports success; f is the step that
\* fails.  A failing `git branch -d`, loadTasks or saveTasks only prints a warning.
AcceptError(worktreeName, f) ==
    IF f = "git" THEN "git"
    ELSE IF worktreeName \notin DOMAIN worktrees THEN "notfound"
    ELSE IF f \in {"branch", "status", "add", "commit", "merge", "remove"} THEN f
    ELSE ""

\* Removing the worktree although the merge failed.
WorktreesRemovedBeforeMerge(worktreeName, f) ==
    IF AcceptError(worktreeName, f) \in {"", "merge"}
    THEN Drop(worktrees, worktreeName) ELSE worktrees

\* runAccept, "Remove the worktree": reached when nothing before it failed
AcceptWorktrees(worktreeName, f) ==
    IF AcceptError(worktreeName, f) = "" THEN Drop(worktrees, worktreeName) ELSE worktrees

\* runAccept, "Delete the branch (it's been merged)"
AcceptBranches(worktreeName, f) ==
    IF AcceptError(worktreeName, f) = "" /\ f # "branch-d"
    THEN Drop(branches, worktrees[worktreeName].branch) ELSE branches

\* Marking the task although the worktree could not be removed.
TasksMarkedWithoutRemoval(worktreeName, f) ==
    IF AcceptError(worktreeName, f) \in {"", "remove"} /\ f \notin {"load", "save"}
    THEN MarkCompleted(tasks, OwnerTaskID(worktreeName)) ELSE tasks

\* Updating the task status ahead of the check that the worktree exists.
TasksMarkedBeforeCheck(worktreeName, f) ==
    IF f \in {"git", "load", "save"} THEN tasks
    ELSE MarkCompleted(tasks, OwnerTaskID(worktreeName))

\* runAccept, "Mark the task as completed"
AcceptTasks(worktreeName, f) ==
    IF AcceptError(worktreeName, f) = "" /\ f \notin {"load", "save"}
    THEN MarkCompleted(tasks, OwnerTaskID(worktreeName)) ELSE tasks

\* the steps runAccept performs, in order; a warning is logged as "warn-..."
AcceptLog(worktreeName, dirty, f) ==
    LET err    == AcceptError(worktreeName, f)
        commit == IF ~dirty \/ f = "add" THEN << >>
                  ELSE IF f = "commit" THEN <<"add">>
                  ELSE <<"add", "commit">>
        merge  == IF f \in {"add", "commit", "merge"} THEN << >> ELSE <<"merge">>
        remove == IF err # "" THEN << >> ELSE <<"remove">>
        branch == IF err # "" THEN << >>
                  ELSE IF f = "branch-d" THEN <<"warn-branch-d">> ELSE <<"branch-d">>
        status == IF err # "" THEN << >>
                  ELSE IF f = "load" THEN <<"warn-load">>
                  ELSE IF IndexOf(tasks, OwnerTaskID(worktreeName)) = 0 THEN << >>
                  ELSE IF f = "save" THEN <<"warn-save">> ELSE <<"save">>
    IN  IF err \in {"git", "notfound", "branch", "status"} THEN << >>
        ELSE commit \o merge \o remove \o branch \o status

\* runAccept; dirty: `git status --porcelain` prints something; f: the step that fails
RunAccept(worktreeName, dirty, f) ==
    /\ phase = "idle"
    /\ Charge(f # "none" \/ worktreeName \notin DOMAIN worktrees)
    /\ ClearRun
    /\ UNCHANGED <<clock, live>>
    /\ (AcceptError(worktreeName, f) \in {"git", "notfound", "branch", "status"} => ~dirty)
    /\ (AcceptError(worktreeName, f) = "notfound" => f = "none")
    /\ (f \in {"add", "commit"} => dirty)
    /\ (f = "save" => IndexOf(tasks, OwnerTaskID(worktreeName)) > 0)
    /\ worktrees' = AcceptWorktrees(worktreeName, f)
    /\ branches' = AcceptBranches(worktreeName, f)
    /\ tasks' = AcceptTasks(worktreeName, f)
    /\ last' = Outcome("accept", worktreeName, AcceptError(worktreeName, f),
                       AcceptLog(worktreeName, dirty, f))

\* the names accept is invoked with: the worktrees that exist, the instances an
\* agent was started for, and one more name
AcceptArgs ==
    DOMAIN worktrees \cup {procs[p] : p \in DOMAIN procs}
    \cup {TaskID(1) \o Suffix(1)}

Accept ==
    \E worktreeName \in AcceptArgs, dirty \in BOOLEAN,
       f \in {"none", "git", "branch", "status", "add", "commit", "merge", "remove",
              "branch-d", "load", "save"} :
        RunAccept(worktreeName, dirty, f)

(***************************************************************************)
(* status                                                                  *)
(***************************************************************************)
\* isProcessRunning: signal 0 reaches any process that holds the pid
IsProcessRunning(pid) == pid > 0 /\ pid \in DOMAIN procs

\* getWorktreeInfo, "Check if the tracked process is still running"; table is
\* the map loadPids returned
IsRunning(table, worktreeName) ==
    worktreeName \in DOMAIN table /\ IsProcessRunning(table[worktreeName])

\* runStatus: the worktrees printed under a task of the list, each with its
\* [running] flag
StatusReport(table) ==
    [w \in {x \in DOMAIN worktrees : OwnerTaskID(x) \in IDsOf(tasks)} |->
        IsRunning(table, w)]

\* runStatus; f is the step that fails.  A failing loadPids is dropped: the
\* table is then read as empty.
RunStatus(f) ==
    /\ phase = "idle"
    /\ ClearRun
    /\ UNCHANGED <<store, git, live>>
    /\ last' = IF f \in {"git", "load"} THEN Outcome("status", NoString, f, << >>)
               ELSE Outcome("status", NoString, "",
                            StatusReport(IF f = "pids" THEN EmptyMap ELSE pids))

\* status changes nothing: like every command without effect it is charged
Status ==
    \E f \in {"none", "git", "load", "pids"} : Charge(TRUE) /\ RunStatus(f)

(***************************************************************************)
(* implement: selection and planning (the main goroutine)                  *)
(***************************************************************************)
\* Taking any target as it comes.
SelectErrorNever(ts, targetTaskID) == ""

\* Implementing a target that is already completed.
SelectErrorIgnoringStatus(ts, targetTaskID) ==
    IF targetTaskID = NoString \/ IndexOf(ts, targetTaskID) # 0 THEN "" ELSE "notfound"

\* runImplement, "Filter tasks to implement": the error, or "" when there is none
SelectError(ts, targetTaskID) ==
    LET i == IndexOf(ts, targetTaskID)
    IN  IF targetTaskID = NoString THEN ""
        ELSE IF i = 0 THEN "notfound"
        ELSE IF ts[i].Status = "completed" THEN "completed"
        ELSE ""

\* Selecting every task that is not completed.
UnfinishedTasks(ts, targetTaskID) ==
    IF targetTaskID # NoString
    THEN LET i == IndexOf(ts, targetTaskID)
         IN  IF i = 0 THEN << >> ELSE <<ts[i]>>
    ELSE SelectSeq(ts, LAMBDA t : t.Status # "completed")

\* runImplement, "Filter tasks to implement": pendingTasks
PendingTasks(ts, targetTaskID) ==
    IF targetTaskID # NoString
    THEN LET i == IndexOf(ts, targetTaskID)
         IN  IF i = 0 THEN << >> ELSE <<ts[i]>>
    ELSE SelectSeq(ts, LAMBDA t : t.Status = "pending")

IndependentTasks(pendingTasks) == SelectSeq(pendingTasks, LAMBDA t : t.DependsOn = NoString)
DependentTasks(pendingTasks)   == SelectSeq(pendingTasks, LAMBDA t : t.DependsOn # NoString)

\* Leaving the statuses as they are.
MarkNothing(ts, pendingTasks) == ts

\* runImplement, "Mark all pending tasks as in-progress before starting"
MarkInProgress(ts, pendingTasks) ==
    [i \in 1..Len(ts) |->
        IF \E j \in 1..Len(pendingTasks) : pendingTasks[j].ID = ts[i].ID
        THEN [ts[i] EXCEPT !.Status = "in-progress"] ELSE ts[i]]

\* one goroutine running implementTaskWithSuffix(task, ..., baseBranchID, suffix)
NewUnit(taskID, baseBranchID, suffix) ==
    [task |-> taskID, base |-> baseBranchID, suffix |-> suffix,
     pc |-> "create", res |-> "", why |-> "", snap |-> EmptyMap, nil |-> FALSE]

\* independentBranches[task.ID]: the suffixes -1..-N of an independent task
DefaultSuffixes(numInstances) == [i \in 1..numInstances |-> Suffix(i)]

RECURSIVE IndependentUnits(_, _)
\* runImplement, "Start independent tasks in parallel"
IndependentUnits(independentTasks, numInstances) ==
    IF independentTasks = << >> THEN << >>
    ELSE [i \in 1..numInstances |->
             NewUnit(Head(independentTasks).ID, NoString, Suffix(i))]
         \o IndependentUnits(Tail(independentTasks), numInstances)

\* Rooting a child on the first instance below the parent's suffix.
BaseOfLineage(task, depSuffix) == task.DependsOn \o depSuffix \o Suffix(1)

\* Rooting every child on the parent's first instance.
BaseOfFirst(task, depSuffix) == task.DependsOn \o Suffix(1)

\* baseBranch := fmt.Sprintf("%s%s", t.DependsOn, ds)
BaseBranchID(task, depSuffix) == task.DependsOn \o depSuffix

RECURSIVE UnitsPerParent(_, _, _)
\* runImplement: for each depSuffix, for i < numInstances, one goroutine
UnitsPerParent(task, depSuffixes, numInstances) ==
    IF depSuffixes = << >> THEN << >>
    ELSE [i \in 1..numInstances |->
             NewUnit(task.ID, BaseBranchID(task, Head(depSuffixes)),
                     ChildSuffix(Head(depSuffixes), i))]
         \o UnitsPerParent(task, Tail(depSuffixes), numInstances)

\* Planning nothing for a dependent whose parent is not an independent task of the run.
DepSuffixesNoFallback(task, independentTasks, numInstances) ==
    IF \E j \in 1..Len(independentTasks) : independentTasks[j].ID = task.DependsOn
    THEN [i \in 1..numInstances |-> Suffix(i)]
    ELSE << >>

\* depSuffixes: the parent's suffixes when it is an independent task of this run,
\* else the fallback -1..-N
DepSuffixes(task, independentTasks, numInstances) ==
    IF \E j \in 1..Len(independentTasks) : independentTasks[j].ID = task.DependsOn
    THEN DefaultSuffixes(numInstances)
    ELSE [i \in 1..numInstances |-> Suffix(i)]

RECURSIVE DependentUnits(_, _, _)
\* runImplement, "Start dependent tasks"
DependentUnits(dependentTasks, independentTasks, numInstances) ==
    IF dependentTasks = << >> THEN << >>
    ELSE UnitsPerParent(Head(dependentTasks),
                        DepSuffixes(Head(dependentTasks), independentTasks, numInstances),
                        numInstances)
         \o DependentUnits(Tail(dependentTasks), independentTasks, numInstances)

\* the goroutines runImplement launches, in launch order
Plan(pendingTasks, numInstances) ==
    IndependentUnits(IndependentTasks(pendingTasks), numInstances)
    \o DependentUnits(DependentTasks(pendingTasks), IndependentTasks(pendingTasks),
                      numInstances)

\* if numInstances < 1 { numInstances = 1 }
ClampInstances(n) == IF n < 1 THEN 1 ELSE n

\* totalIndependent + totalDependent
TotalInstances(pendingTasks, numInstances) ==
    Len(IndependentTasks(pendingTasks)) * numInstances
    + Len(DependentTasks(pendingTasks)) * numInstances * numInstances

\* runImplement returns a non-nil error: "No tasks found" and "No pending tasks
\* to implement" are printed and nil is returned
ReturnsError(err) == err \notin {"", "notasks", "nopending"}

\* Launching the goroutines although the task list could not be written.
LaunchAlways(f) == TRUE

\* runImplement returns before the fan-out when saveTasks fails
LaunchAllowed(f) == f # "save"

\* runImplement up to and including the launch of the goroutines; n: the -n flag,
\* f: the step that fails, cap: the largest plan explored
ImplementLaunch(n, targetTaskID, f, cap) ==
    LET numInstances == ClampInstances(n)
        selectError  == SelectError(tasks, targetTaskID)
        pendingTasks == PendingTasks(tasks, targetTaskID)
        plan         == Plan(pendingTasks, numInstances)
        stop(err)    == /\ last' = Outcome("implement", targetTaskID, err, << >>)
                        /\ ClearRun
                        /\ UNCHANGED <<tasks, runs>>
    IN  /\ phase = "idle"
        /\ Charge(f # "none" \/ Len(pendingTasks) = 0)
        /\ UNCHANGED <<clock, git, pids, procs>>
        /\ (f \in {"git", "load"} => n = 1 /\ targetTaskID = NoString)
        /\ IF f \in {"git", "load"} THEN stop(f)
           ELSE IF Len(tasks) = 0 THEN f = "none" /\ n = 1 /\ stop("notasks")
           ELSE IF selectError # "" THEN f = "none" /\ n = 1 /\ stop(selectError)
           ELSE IF Len(pendingTasks) = 0 THEN f = "none" /\ n = 1 /\ stop("nopending")
           ELSE IF f = "mkdir" THEN n = 1 /\ stop(f)
           ELSE /\ Len(plan) <= cap
                /\ runs < MaxRuns
                /\ IF ~LaunchAllowed(f) THEN stop(f)
                   ELSE /\ tasks' = IF f = "save" THEN tasks
                                     ELSE MarkInProgress(tasks, pendingTasks)
                        /\ last' = Outcome("implement", targetTaskID, "", << >>)
                        /\ phase' = "running"
                        /\ units' = plan
                        /\ chanLen' = 0
                        /\ chanCap' = TotalInstances(pendingTasks, numInstances)
                        /\ closed' = FALSE
                        /\ reported' = 0
                        /\ runs' = runs + 1

ImplementStart(n, targetTaskID, f) == ImplementLaunch(n, targetTaskID, f, MaxUnits)

Implement ==
    \E n \in 0..MaxN, targetTaskID \in {NoString} \cup AllIDs,
       f \in {"none", "git", "load", "mkdir", "save"} :
        ImplementStart(n, targetTaskID, f)

(***************************************************************************)
(* implement: the goroutines (implementTaskWithSuffix) and the collector   *)
(***************************************************************************)
InstanceID(u) == u.task \o u.suffix

\* claudeCmd.Process.Pid: the operating system gives every process it starts a
\* pid of its own; the agent of goroutine k of the run gets the k-th pid of the
\* run's block
PidOf(k) == (runs - 1) * MaxUnits + k

\* the goroutine returns result res and sends it on the results channel
Return(k, res, why) ==
    /\ units' = [units EXCEPT ![k].pc = "done", ![k].res = res, ![k].why = why,
                               ![k].snap = EmptyMap]
    /\ chanLen' = chanLen + 1
    /\ phase' = phase

\* A failure that ends the whole process, as log.Fatal would.
FatalError(k, why) ==
    /\ units' = [units EXCEPT ![k].pc = "panic", ![k].res = "error", ![k].why = why]
    /\ phase' = "idle"
    /\ UNCHANGED chanLen

\* implementTaskWithSuffix returns an "[error]" result string
ReturnError(k, why) == Return(k, "error", why)

\* Treating an existing path like any other: no idempotency check.
NeverExists(instanceID) == FALSE

\* os.Stat(worktreePath) succeeds
PathExists(instanceID) == instanceID \in DOMAIN worktrees

\* implementTaskWithSuffix, "Determine base branch": the start point given to
\* `git worktree add`, << >> when there is none (the current HEAD)
GitBase(baseBranchID) ==
    IF baseBranchID # NoString THEN BranchName(baseBranchID) ELSE NoString

\* why `git worktree add -b branchName worktreePath [baseBranch]` must fail, or ""
AddRefusal(branchName, baseBranchID) ==
    IF branchName \in DOMAIN branches THEN "branch-exists"
    ELSE IF GitBase(baseBranchID) # NoString /\ GitBase(baseBranchID) \notin DOMAIN branches
         THEN "no-base"
    ELSE ""

\* implementTaskWithSuffix up to the worktree creation.  The stat and the git
\* command are one step: the path they concern is written by this goroutine only.
UnitCreate(k, f) ==
    LET u          == units[k]
        instanceID == InstanceID(u)
        branchName == BranchName(instanceID)
        refusal    == AddRefusal(branchName, u.base)
    IN  /\ phase = "running"
        /\ u.pc = "create"
        /\ Charge(f # "none")
        /\ UNCHANGED <<store, live, chanCap, closed, reported, last>>
        /\ IF PathExists(instanceID) THEN
                /\ f = "none"
                /\ Return(k, "skip", "")
                /\ UNCHANGED <<worktrees, branches>>
           ELSE IF refusal # "" THEN
                /\ f = "none"
                /\ ReturnError(k, refusal)
                /\ UNCHANGED <<worktrees, branches>>
           ELSE IF f = "add" THEN
                /\ ReturnError(k, "add")
                /\ UNCHANGED <<worktrees, branches>>
           ELSE /\ worktrees' = Put(worktrees, instanceID,
                                     [branch |-> branchName, task |-> u.task])
                /\ branches' = Put(branches, branchName, GitBase(u.base))
                /\ units' = [units EXCEPT ![k].pc = "spawn"]
                /\ UNCHANGED <<chanLen, phase>>

\* claudeCmd.Start() and, inside savePid, loadPids.  A read error other than
\* not-exist, or a file holding null, gives savePid a nil map.
UnitSpawn(k, f) ==
    LET u == units[k]
    IN  /\ phase = "running"
        /\ u.pc = "spawn"
        /\ Charge(f # "none")
        /\ UNCHANGED <<store, git, pids, runs, chanCap, closed, reported, last>>
        /\ IF f = "start" THEN
                /\ ReturnError(k, "start")
                /\ UNCHANGED procs
           ELSE /\ procs' = Put(procs, PidOf(k), InstanceID(u))
                /\ units' = [units EXCEPT ![k].pc = "save", ![k].snap = pids,
                                           ![k].nil = (f = "read")]
                /\ UNCHANGED <<chanLen, phase>>

\* savePid: pids[worktreeName] = pid; savePids(pids), whose error is dropped.
\* The assignment to a nil map panics: the process dies with all its goroutines.
UnitSavePid(k, f) ==
    LET u == units[k]
    IN  /\ phase = "running"
        /\ u.pc = "save"
        /\ Charge(f # "none")
        /\ UNCHANGED <<store, git, procs, runs, chanCap, closed, reported>>
        /\ IF u.nil THEN
                /\ f = "none"
                /\ phase' = "idle"
                /\ last' = [last EXCEPT !.err = "panic"]
                /\ units' = [units EXCEPT ![k].pc = "panic"]
                /\ UNCHANGED <<pids, chanLen>>
           ELSE /\ pids' = IF f = "write" THEN pids ELSE Put(u.snap, InstanceID(u), PidOf(k))
                /\ Return(k, "started", "")
                /\ UNCHANGED last

\* for result := range results { fmt.Println(result) }
Collect ==
    /\ phase = "running"
    /\ chanLen > 0
    /\ chanLen' = chanLen - 1
    /\ reported' = reported + 1
    /\ UNCHANGED <<store, git, live, phase, units, chanCap, closed, last, faults>>

\* go func() { wg.Wait(); close(results) }()
CloseResults ==
    /\ phase = "running"
    /\ ~closed
    /\ \A k \in 1..Len(units) : units[k].pc = "done"
    /\ closed' = TRUE
    /\ UNCHANGED <<store, git, live, phase, units, chanLen, chanCap, reported, last, faults>>

\* the range loop ends on the closed, drained channel; runImplement returns nil
ImplementReturn ==
    /\ phase = "running"
    /\ closed
    /\ chanLen = 0
    /\ phase' = "idle"
    /\ UNCHANGED <<store, git, live, units, chanLen, chanCap, closed, reported, last, faults>>

Unit ==
    \/ \E k \in 1..Len(units), f \in {"none", "add"} : UnitCreate(k, f)
    \/ \E k \in 1..Len(units), f \in {"none", "start", "read"} : UnitSpawn(k, f)
    \/ \E k \in 1..Len(units), f \in {"none", "write"} : UnitSavePid(k, f)

Next ==
    \/ Feature
    \/ Delete
    \/ Accept
    \/ Status
    \/ Implement
    \/ Unit
    \/ Collect
    \/ CloseResults
    \/ ImplementReturn

Spec == Init /\ [][Next]_vars

(***************************************************************************)
(* The planner alone: runImplement applied once to every task list of up   *)
(* to MaxPlanTasks tasks, whatever the statuses.  Every such list is left  *)
(* by some sequence of feature, implement and accept commands.             *)
(***************************************************************************)
PlanIDs == {TaskID(i) : i \in 1..MaxPlanTasks}

PlanTaskLists ==
    UNION {{ts \in [1..len -> [ID : PlanIDs, DependsOn : {NoString} \cup PlanIDs,
                               Status : {"pending", "in-progress", "completed"}]] :
               \A i \in 1..len :
                   /\ ts[i].ID = TaskID(i)
                   /\ ts[i].DependsOn \in {NoString} \cup {TaskID(j) : j \in 1..(i - 1)}}
           : len \in 1..MaxPlanTasks}

PlanCap == MaxPlanTasks * MaxPlanN * MaxPlanN

InitPlan ==
    /\ tasks \in PlanTaskLists
    /\ clock = Len(tasks)
    /\ worktrees = EmptyMap
    /\ branches = EmptyMap
    /\ pids = EmptyMap
    /\ procs = EmptyMap
    /\ runs = 0
    /\ phase = "idle"
    /\ units = << >>
    /\ chanLen = 0
    /\ chanCap = 0
    /\ closed = FALSE
    /\ reported = 0
    /\ last = Outcome("none", NoString, "", << >>)
    /\ faults = 0

ImplementPlan ==
    \E n \in 0..MaxPlanN, targetTaskID \in {NoString} \cup PlanIDs :
        ImplementLaunch(n, targetTaskID, "none", PlanCap)

NextPlan == ImplementPlan

SpecPlan == InitPlan /\ [][NextPlan]_vars

(***************************************************************************)
(* The task store alone: feature and delete in any order.  The identifier  *)
(* of a task is the reading of the wall clock, which the system may set    *)
(* back between two invocations and which has a finite resolution: every   *)
(* invocation may read any value.                                          *)
(***************************************************************************)
StoreIDs == {TaskID(n) : n \in 1..MaxClock}

FeatureStore ==
    \E prompt \in {"", "p"}, dependsOn \in {NoString} \cup StoreIDs,
       f \in {"none", "git", "load", "save"}, now \in 1..MaxClock :
        /\ Len(tasks) < MaxStoreTasks
        /\ RunFeatureAt(prompt, dependsOn, f, now, MaxClock)

DeleteStore ==
    \E taskID \in StoreIDs, f \in {"none", "git", "load", "save"} : RunDelete(taskID, f)

NextStore == FeatureStore \/ DeleteStore

SpecStore == Init /\ [][NextStore]_vars

(***************************************************************************)
(* The liveness probe alone.  One task with two instances; pids.json is a  *)
(* file and may hold any pid for an instance, or none; an entry with a     *)
(* positive pid is the pid of the instance's agent, which runs.  Then      *)
(* processes exit, the system hands free pids to other processes of the    *)
(* same user, and status probes.                                           *)
(***************************************************************************)
LiveNames == {TaskID(1) \o Suffix(i) : i \in 1..2}

LiveTables ==
    UNION {{t \in [names -> (0 - 1)..MaxPid] :
               \A a, b \in names : (a # b /\ t[a] > 0) => t[a] # t[b]}
           : names \in SUBSET LiveNames}

InitLive ==
    /\ tasks = <<[ID |-> TaskID(1), DependsOn |-> NoString, Status |-> "in-progress"]>>
    /\ clock = 1
    /\ worktrees = [w \in LiveNames |-> [branch |-> BranchName(w), task |-> TaskID(1)]]
    /\ branches = [b \in {BranchName(w) : w \in LiveNames} |-> NoString]
    /\ pids \in LiveTables
    /\ procs = [p \in {pids[w] : w \in DOMAIN pids} \cap 1..MaxPid |->
                   CHOOSE w \in DOMAIN pids : pids[w] = p]
    /\ runs = 1
    /\ phase = "idle"
    /\ units = << >>
    /\ chanLen = 0
    /\ chanCap = 0
    /\ closed = FALSE
    /\ reported = 0
    /\ last = Outcome("implement", NoString, "", << >>)
    /\ faults = 0

\* a process ends: its pid is free again
ProcessExit ==
    \E p \in DOMAIN procs :
        /\ procs' = Drop(procs, p)
        /\ UNCHANGED <<store, git, pids, runs, run, last, faults>>

\* the system starts a process that is no agent of ours on a free pid
ProcessStart ==
    \E p \in 1..MaxPid :
        /\ p \notin DOMAIN procs
        /\ procs' = Put(procs, p, NoString)
        /\ UNCHANGED <<store, git, pids, runs, run, last, faults>>

StatusLive ==
    \E f \in {"none", "git", "load", "pids"} : RunStatus(f) /\ UNCHANGED faults

NextLive == ProcessExit \/ ProcessStart \/ StatusLive

SpecLive == InitLive /\ [][NextLive]_vars

(***************************************************************************)
(* Convergence: parsing the judging agent's response.  A response is a     *)
(* sequence of lines, a line a sequence of words, a word a string.  The    *)
(* response comes bare or wrapped in an envelope with a result field.      *)
(***************************************************************************)
MaxLines == 2

\* the words looked for around a name: 3 words stand for about 50 characters
Window == 3

EmphasisChars == {"*", "_"}

StripEmphasis(word) == SelectSeq(word, LAMBDA c : c \notin EmphasisChars)

LowerChar(c) == CASE c = "WINNER:" -> "winner:"
                  [] c = "Winner:" -> "winner:"
                  [] c = "BEST"    -> "best"
                  [] OTHER         -> c

ToLower(word) == [i \in 1..Len(word) |-> LowerChar(word[i])]

\* the verdict keyword, in any case, inside any emphasis
IsKeyword(word) == ToLower(StripEmphasis(word)) = <<"winner:">>

Bare(lines)     == [kind |-> "text", text |-> lines]
Envelope(lines) == [kind |-> "envelope", result |-> lines]

\* step 1: an envelope is unwrapped to its result field
Unwrap(raw) == IF raw.kind = "envelope" THEN raw.result ELSE raw.text

Least(S) == CHOOSE x \in S : \A y \in S : x <= y
Most(S)  == CHOOSE x \in S : \A y \in S : x >= y

\* the positions of the line holding the keyword followed by a candidate's name
VerdictsIn(line, candidates) ==
    {q \in 1..(Len(line) - 1) :
        IsKeyword(line[q]) /\ StripEmphasis(line[q + 1]) \in candidates}

VerdictLines(lines, candidates) ==
    {i \in 1..Len(lines) : VerdictsIn(lines[i], candidates) # {}}

\* Letting the last verdict of the response win.
ScanVerdictLast(lines, candidates) ==
    IF VerdictLines(lines, candidates) = {} THEN NoString
    ELSE LET i == Most(VerdictLines(lines, candidates))
             q == Most(VerdictsIn(lines[i], candidates))
         IN  StripEmphasis(lines[i][q + 1])

\* step 2: the first verdict whose trailing token names a candidate
ScanVerdict(lines, candidates) ==
    IF VerdictLines(lines, candidates) = {} THEN NoString
    ELSE LET i == Least(VerdictLines(lines, candidates))
             q == Least(VerdictsIn(lines[i], candidates))
         IN  StripEmphasis(lines[i][q + 1])

RECURSIVE Flatten(_)
Flatten(lines) == IF lines = << >> THEN << >> ELSE Head(lines) \o Flatten(Tail(lines))

\* name occurs in word
Contains(word, name) ==
    \E o \in 0..(Len(word) - Len(name)) : SubSeq(word, o + 1, o + Len(name)) = name

Cues == {"winner", "winner:", "best", "recommend"}

\* one of the cue words stands within the window around position at
Near(text, at) ==
    \E q \in (at - Window)..(at + Window) :
        /\ q \in 1..Len(text)
        /\ \E c \in 1..Len(text[q]) : ToLower(text[q])[c] \in Cues

\* step 3: the first occurrence of a candidate's name with a cue word nearby
ScanProximity(lines, candidates) ==
    LET text == Flatten(lines)
        hits == {at \in 1..Len(text) :
                    /\ \E c \in candidates : Contains(ToLower(text[at]), c)
                    /\ Near(text, at)}
    IN  IF hits = {} THEN NoString
        ELSE CHOOSE c \in candidates : Contains(ToLower(text[Least(hits)]), c)

\* steps 1 to 4: the winner, << >> when there is none
ParseWinner(raw, candidates) ==
    LET lines == Unwrap(raw)
    IN  IF ScanVerdict(lines, candidates) # NoString
        THEN ScanVerdict(lines, candidates)
        ELSE ScanProximity(lines, candidates)

ConvergeNames == {TaskID(t) \o Suffix(i) : t \in 1..2, i \in 1..2}

CandidateSets == {{TaskID(t) \o Suffix(i) : i \in 1..2} : t \in 1..2}

\* the lines a judge writes: verdicts, plain and emphasised, naming an instance
\* of either task or nothing; names with and without a cue word; other text
JudgeLines ==
    {<<<<"WINNER:">>, TaskID(1) \o Suffix(2)>>,
     <<<<"the">>, <<"*", "*", "Winner:">>, TaskID(1) \o Suffix(1) \o <<"*", "*">>>>,
     <<<<"WINNER:">>, TaskID(2) \o Suffix(1)>>,
     <<<<"winner:">>>>,
     <<TaskID(1) \o Suffix(2), <<"is">>, <<"BEST">>>>,
     <<TaskID(1) \o Suffix(1)>>,
     <<<<"done">>, <<"and">>, <<"tested">>, <<"thoroughly">>>>}

JudgeResponses ==
    LET texts == UNION {[1..n -> JudgeLines] : n \in 1..MaxLines}
    IN  {Bare(t) : t \in texts} \cup {Envelope(t) : t \in texts}

\* a response has arrived for a set of candidates and is not parsed yet
InitParse ==
    /\ tasks = << >>
    /\ clock = 0
    /\ worktrees = EmptyMap
    /\ branches = EmptyMap
    /\ pids = EmptyMap
    /\ procs = EmptyMap
    /\ runs = 0
    /\ phase = "idle"
    /\ units = << >>
    /\ chanLen = 0
    /\ chanCap = 0
    /\ closed = FALSE
    /\ reported = 0
    /\ \E raw \in JudgeResponses, candidates \in CandidateSets :
          last = Outcome("judge", NoString, "",
                         [raw |-> raw, candidates |-> candidates, parsed |-> FALSE,
                          winner |-> NoString])
    /\ faults = 0

Parse ==
    /\ last.cmd = "judge"
    /\ ~last.log.parsed
    /\ last' = [last EXCEPT !.log.parsed = TRUE,
                            !.log.winner = ParseWinner(last.log.raw, last.log.candidates)]
    /\ UNCHANGED <<store, git, live, run, faults>>

NextParse == Parse

SpecParse == InitParse /\ [][NextParse]_vars

(***************************************************************************)
(* Convergence: the command.  Two tasks in progress, each with up to two   *)
(* instances whose agents run at first and end one by one; converge is     *)
(* applied to a task at any moment, with or without --merge, and the judge *)
(* answers with any one-line response.                                     *)
(***************************************************************************)
Instances(taskID) == {w \in DOMAIN worktrees : worktrees[w].task = taskID}

\* Judging whatever the probes say.
NeverRunning(taskID) == FALSE

\* an instance of the task probes as running
AnyRunning(taskID) == \E w \in Instances(taskID) : IsRunning(pids, w)

\* Recording some candidate when the parser found none.
GuessedWinner(parsed, candidates) ==
    IF parsed = NoString THEN CHOOSE c \in candidates : TRUE ELSE parsed

\* the name recorded as the winner, << >> for none
RecordedWinner(parsed, candidates) == parsed

SetWinner(ts, taskID, winner) ==
    LET i == IndexOf(ts, taskID)
    IN  IF i = 0 THEN ts ELSE [ts EXCEPT ![i].Winner = winner]

Verdict(outcome, judged, raw, winner, accepted) ==
    [outcome |-> outcome, judged |-> judged, raw |-> raw, winner |-> winner,
     accepted |-> accepted]

\* converge for one task; raw is the judge's response, merge the --merge flag,
\* f = "judge" a judging agent that fails
RunConverge(taskID, raw, merge, f) ==
    LET candidates == Instances(taskID)
        winner     == RecordedWinner(ParseWinner(raw, candidates), candidates)
    IN  /\ phase = "idle"
        /\ ClearRun
        /\ UNCHANGED <<clock, live>>
        /\ IF AnyRunning(taskID) THEN
                /\ f = "none"
                /\ last' = Outcome("converge", taskID, "",
                                   Verdict("wait", FALSE, NoString, NoString, FALSE))
                /\ UNCHANGED <<tasks, git>>
           ELSE IF Cardinality(candidates) < 2 THEN
                /\ f = "none"
                /\ last' = Outcome("converge", taskID, "",
                                   Verdict("skip", FALSE, NoString, NoString, FALSE))
                /\ UNCHANGED <<tasks, git>>
           ELSE IF f = "judge" THEN
                /\ last' = Outcome("converge", taskID, "judge",
                                   Verdict("error", TRUE, NoString, NoString, FALSE))
                /\ UNCHANGED <<tasks, git>>
           ELSE IF winner = NoString THEN
                /\ last' = Outcome("converge", taskID, "",
                                   Verdict("no-winner", TRUE, raw, NoString, FALSE))
                /\ UNCHANGED <<tasks, git>>
           ELSE IF ~merge THEN
                /\ last' = Outcome("converge", taskID, "",
                                   Verdict("winner", TRUE, raw, winner, FALSE))
                /\ tasks' = SetWinner(tasks, taskID, winner)
                /\ UNCHANGED git
           ELSE /\ last' = Outcome("converge", taskID, "",
                                   Verdict("winner", TRUE, raw, winner, TRUE))
                /\ tasks' = MarkCompleted(SetWinner(tasks, taskID, winner),
                                          OwnerTaskID(winner))
                /\ worktrees' = Drop(worktrees, winner)
                /\ branches' = Drop(branches, worktrees[winner].branch)

ConvergePid(w) ==
    CHOOSE p \in 1..4 : \E t \in 1..2, i \in 1..2 :
        p = 2 * (t - 1) + i /\ w = TaskID(t) \o Suffix(i)

OneLineResponses == {raw \in JudgeResponses : Len(Unwrap(raw)) = 1}

InitConverge ==
    /\ tasks = [t \in 1..2 |-> [ID |-> TaskID(t), DependsOn |-> NoString,
                                Status |-> "in-progress", Winner |-> NoString]]
    /\ clock = 2
    /\ \E names \in SUBSET ConvergeNames :
          /\ worktrees = [w \in names |-> [branch |-> BranchName(w),
                                           task |-> OwnerTaskID(w)]]
          /\ branches = [b \in {BranchName(w) : w \in names} |-> NoString]
          /\ pids = [w \in names |-> ConvergePid(w)]
          /\ procs = [q \in {ConvergePid(w) : w \in names} |->
                         CHOOSE w \in names : ConvergePid(w) = q]
    /\ runs = 1
    /\ phase = "idle"
    /\ units = << >>
    /\ chanLen = 0
    /\ chanCap = 0
    /\ closed = FALSE
    /\ reported = 0
    /\ last = Outcome("implement", NoString, "", << >>)
    /\ faults = 0

Converge ==
    \E taskID \in IDsOf(tasks), raw \in OneLineResponses, merge \in BOOLEAN,
       f \in {"none", "judge"} :
        RunConverge(taskID, raw, merge, f) /\ UNCHANGED faults

NextConverge == ProcessExit \/ Converge

SpecConverge == InitConverge /\ [][NextConverge]_vars

(***************************************************************************)
(* Prune.  Two tasks in any status, any of their instances left over;      *)
(* prune is applied again and again, any of its removals failing.          *)
(***************************************************************************)
IsPrefix(id, name) == Len(id) <= Len(name) /\ SubSeq(name, 1, Len(id)) = id

\* Pruning every task that was started.
PrunableOnceStarted(task) == task.Status # "pending"

Prunable(task) == task.Status = "completed"

\* the checkout instances prune looks for
PruneTargets ==
    {w \in DOMAIN worktrees :
        \E i \in 1..Len(tasks) : Prunable(tasks[i]) /\ IsPrefix(tasks[i].ID, w)}

\* Keeping a task whose instances could not all be removed.
SurvivorsUnlessClean(ts, failing) ==
    SelectSeq(ts, LAMBDA t : ~Prunable(t) \/ \E w \in failing : IsPrefix(t.ID, w))

\* the tasks left in the persisted list
Survivors(ts, failing) == SelectSeq(ts, LAMBDA t : ~Prunable(t))

\* prune; failing are the instances whose removal fails
RunPrune(failing) ==
    LET removed == PruneTargets \ failing
    IN  /\ phase = "idle"
        /\ failing \subseteq PruneTargets
        /\ ClearRun
        /\ worktrees' = [w \in DOMAIN worktrees \ removed |-> worktrees[w]]
        /\ branches' = [b \in DOMAIN branches \ {worktrees[w].branch : w \in removed} |->
                           branches[b]]
        /\ tasks' = Survivors(tasks, failing)
        /\ last' = Outcome("prune", NoString, "",
                           [tasks     |-> Len(tasks) - Len(Survivors(tasks, failing)),
                            instances |-> Cardinality(removed),
                            failed    |-> Cardinality(failing)])
        /\ UNCHANGED <<clock, live, faults>>

InitPrune ==
    /\ tasks \in [1..2 -> [ID : {TaskID(1), TaskID(2)}, DependsOn : {NoString},
                           Status : {"pending", "in-progress", "completed"}]]
    /\ \A t \in 1..2 : tasks[t].ID = TaskID(t)
    /\ clock = 2
    /\ \E names \in SUBSET ConvergeNames :
          /\ worktrees = [w \in names |-> [branch |-> BranchName(w),
                                           task |-> OwnerTaskID(w)]]
          /\ branches = [b \in {BranchName(w) : w \in names} |-> NoString]
    /\ pids = EmptyMap
    /\ procs = EmptyMap
    /\ runs = 1
    /\ phase = "idle"
    /\ units = << >>
    /\ chanLen = 0
    /\ chanCap = 0
    /\ closed = FALSE
    /\ reported = 0
    /\ last = Outcome("accept", NoString, "", << >>)
    /\ faults = 0

Prune == \E failing \in SUBSET ConvergeNames : RunPrune(failing)

NextPrune == Prune

SpecPrune == InitPrune /\ [][NextPrune]_vars

(***************************************************************************)
(* Iterative mode.  The units of one task have their checkouts and run the *)
(* agent in a loop; max is the maximum-iteration count, 0 when none is     *)
(* given.  Every iteration's output is kept in the unit's log files.       *)
(***************************************************************************)
MaxIter == 3

Sentinel == <<"TASK COMPLETE">>

LoopOutputs == {<<"working">>, <<"all", "criteria", "met", "TASK COMPLETE">>,
                <<"task complete">>}

\* Stopping only once the count has been passed.
LimitExceeded(iterations, max) == max > 0 /\ iterations > max

\* the maximum-iteration count stops the loop
LimitReached(iterations, max) == max > 0 /\ iterations >= max

LoopUnit(taskID, suffix, max) ==
    [task |-> taskID, base |-> NoString, suffix |-> suffix, pc |-> "iterate",
     res |-> "", why |-> "", snap |-> EmptyMap, nil |-> FALSE, max |-> max,
     logs |-> << >>]

\* one iteration of the loop of unit k: the agent runs and prints output, or
\* fails (f = "agent")
Iterate(k, output, f) ==
    LET u == units[k]
    IN  /\ phase = "running"
        /\ u.pc = "iterate"
        /\ Len(u.logs) < MaxIter
        /\ UNCHANGED <<store, git, live, chanCap, closed, reported, last, faults>>
        /\ chanLen' = IF f = "agent" \/ Contains(output, Sentinel)
                         \/ LimitReached(Len(u.logs) + 1, u.max)
                      THEN chanLen + 1 ELSE chanLen
        /\ phase' = phase
        /\ IF f = "agent" THEN
                units' = [units EXCEPT ![k].pc = "done", ![k].res = "error",
                                       ![k].why = "iteration"]
           ELSE IF Contains(output, Sentinel) THEN
                units' = [units EXCEPT ![k].pc = "done", ![k].res = "complete",
                                       ![k].logs = Append(u.logs, output)]
           ELSE IF LimitReached(Len(u.logs) + 1, u.max) THEN
                units' = [units EXCEPT ![k].pc = "done", ![k].res = "limit",
                                       ![k].logs = Append(u.logs, output)]
           ELSE units' = [units EXCEPT ![k].logs = Append(u.logs, output)]

InitLoop ==
    /\ tasks = <<[ID |-> TaskID(1), DependsOn |-> NoString, Status |-> "in-progress"]>>
    /\ clock = 1
    /\ \E n \in 1..Cardinality(LiveNames), max \in 0..MaxIter :
          /\ units = [k \in 1..n |-> LoopUnit(TaskID(1), Suffix(k), max)]
          /\ worktrees = [w \in {TaskID(1) \o Suffix(k) : k \in 1..n} |->
                             [branch |-> BranchName(w), task |-> TaskID(1)]]
          /\ branches = [b \in {BranchName(TaskID(1) \o Suffix(k)) : k \in 1..n} |->
                            NoString]
          /\ chanCap = n
    /\ pids = EmptyMap
    /\ procs = EmptyMap
    /\ runs = 1
    /\ phase = "running"
    /\ chanLen = 0
    /\ closed = FALSE
    /\ reported = 0
    /\ last = Outcome("implement", NoString, "", << >>)
    /\ faults = 0

Loop ==
    \E k \in 1..Len(units), output \in LoopOutputs, f \in {"none", "agent"} :
        Iterate(k, output, f)

NextLoop == Loop \/ Collect \/ CloseResults \/ ImplementReturn

SpecLoop == InitLoop /\ [][NextLoop]_vars

(***************************************************************************)
(* Concurrent invocations.  Several processes of the tool run against the  *)
(* same tasks.json: each one reads the file (loadTasks), changes the list  *)
(* it read and writes it back (saveTasks); no lock is taken, so the steps  *)
(* of the processes interleave freely.  units holds the processes here:    *)
(* snap is the list a process read, ver the number of writes the file had  *)
(* seen when it read, at the number of its own write (0: none yet).        *)
(***************************************************************************)
MaxInvocations == 2

RaceWorktree == TaskID(1) \o Suffix(1)

Invocation(cmd) ==
    [cmd |-> cmd, pc |-> "load", snap |-> << >>, id |-> NoString, ver |-> 0, at |-> 0]

\* Writing the new task alone.
FeatureReplaces(snap, id) ==
    <<[ID |-> id, DependsOn |-> NoString, Status |-> "pending"]>>

\* runFeature: tasks = append(tasks, task)
FeatureAppends(snap, id) ==
    Append(snap, [ID |-> id, DependsOn |-> NoString, Status |-> "pending"])

\* the list a process writes back
Updated(u) ==
    CASE u.cmd = "feature"   -> FeatureAppends(u.snap, u.id)
      [] u.cmd = "accept"    -> MarkCompleted(u.snap, OwnerTaskID(RaceWorktree))
      [] u.cmd = "implement" -> MarkInProgress(u.snap, PendingTasks(u.snap, NoString))

\* the process reaches saveTasks: accept saves when it finds the owner,
\* implement when something is pending
Saves(u) ==
    CASE u.cmd = "feature"   -> TRUE
      [] u.cmd = "accept"    -> IndexOf(u.snap, OwnerTaskID(RaceWorktree)) # 0
      [] u.cmd = "implement" -> Len(PendingTasks(u.snap, NoString)) > 0

WritesSoFar == Cardinality({j \in 1..Len(units) : units[j].at > 0})

\* loadTasks of process k; a feature then takes its id from the clock
RaceLoad(k) ==
    LET u    == units[k]
        read == [u EXCEPT !.snap = tasks, !.ver = WritesSoFar,
                          !.id = IF u.cmd = "feature" THEN TaskID(clock + 1) ELSE NoString]
    IN  /\ u.pc = "load"
        /\ units' = [units EXCEPT ![k] = [read EXCEPT !.pc = IF Saves(read) THEN "save"
                                                             ELSE "done"]]
        /\ clock' = IF u.cmd = "feature" THEN clock + 1 ELSE clock
        /\ UNCHANGED <<tasks, git, live, phase, chanLen, chanCap, closed, reported,
                       last, faults>>

\* saveTasks of process k
RaceSave(k) ==
    LET u == units[k]
    IN  /\ u.pc = "save"
        /\ tasks' = Updated(u)
        /\ units' = [units EXCEPT ![k].pc = "done", ![k].at = WritesSoFar + 1]
        /\ UNCHANGED <<clock, git, live, phase, chanLen, chanCap, closed, reported,
                       last, faults>>

InitRace ==
    /\ tasks \in {<< >>} \cup
                 {<<[ID |-> TaskID(1), DependsOn |-> NoString, Status |-> st]>> :
                     st \in {"pending", "in-progress"}} \cup
                 {<<[ID |-> TaskID(1), DependsOn |-> NoString, Status |-> "in-progress"],
                    [ID |-> TaskID(2), DependsOn |-> NoString, Status |-> "pending"]>>}
    /\ clock = Len(tasks)
    /\ worktrees = IF tasks # << >> /\ tasks[1].Status = "in-progress"
                   THEN [w \in {RaceWorktree} |->
                            [branch |-> BranchName(w), task |-> TaskID(1)]]
                   ELSE EmptyMap
    /\ branches = [b \in {BranchName(w) : w \in DOMAIN worktrees} |-> NoString]
    /\ pids = EmptyMap
    /\ procs = EmptyMap
    /\ runs = 0
    /\ phase = "idle"
    /\ units \in [1..MaxInvocations ->
                     {Invocation(cmd) : cmd \in {"feature", "implement", "accept"}}]
    /\ \A k \in 1..MaxInvocations :
          units[k].cmd = "accept" => RaceWorktree \in DOMAIN worktrees
    /\ chanLen = 0
    /\ chanCap = 0
    /\ closed = FALSE
    /\ reported = 0
    /\ last = Outcome("none", NoString, "", << >>)
    /\ faults = 0

Load == \E k \in 1..Len(units) : RaceLoad(k)

Save == \E k \in 1..Len(units) : RaceSave(k)

NextRace == Load \/ Save

SpecRace == InitRace /\ [][NextRace]_vars

(***************************************************************************)
(* The planner on a task list with a repeated id.  feature read the same   *)
(* clock value twice (time.Now().UnixNano(), nothing rejects a repeated    *)
(* value), so the first two tasks carry the id task-1: the first in any    *)
(* status (it may have been implemented and accepted before the second     *)
(* feature), the second pending as feature left it.  A third task, task-2, *)
(* is independent or depends on task-1; it is pending, or was started by   *)
(* an implement aimed at it, or (independent) was accepted after that.     *)
(***************************************************************************)
DupTaskLists ==
    {ts \in UNION {[1..len -> [ID : {TaskID(1), TaskID(2)},
                                DependsOn : {NoString, TaskID(1)},
                                Status : {"pending", "in-progress", "completed"}]]
                   : len \in 2..3} :
        /\ ts[1].ID = TaskID(1) /\ ts[1].DependsOn = NoString
        /\ ts[2].ID = TaskID(1) /\ ts[2].DependsOn = NoString
        /\ ts[2].Status = "pending"
        /\ Len(ts) = 3 => /\ ts[3].ID = TaskID(2)
                          /\ ts[3].DependsOn # NoString => ts[3].Status # "completed"}

InitDup ==
    /\ tasks \in DupTaskLists
    /\ clock = Len(tasks)
    /\ worktrees = EmptyMap
    /\ branches = EmptyMap
    /\ pids = EmptyMap
    /\ procs = EmptyMap
    /\ runs = 0
    /\ phase = "idle"
    /\ units = << >>
    /\ chanLen = 0
    /\ chanCap = 0
    /\ closed = FALSE
    /\ reported = 0
    /\ last = Outcome("none", NoString, "", << >>)
    /\ faults = 0

ImplementDup ==
    \E n \in 0..MaxPlanN, targetTaskID \in {NoString, TaskID(1), TaskID(2)} :
        ImplementLaunch(n, targetTaskID, "none", 2 * PlanCap)

NextDup == ImplementDup

SpecDup == InitDup /\ [][NextDup]_vars

(***************************************************************************)
(* Properties                                                              *)
(***************************************************************************)
\* C1: implement -n N over M selected independent tasks plans exactly M*N units,
\* one per task T and i in 1..N, named T-i and without a base branch; each is
\* created on branch autom8/T-i started from HEAD; when the run is over and every
\* creation went through, the checkouts of all M*N units exist.
C1_IndependentFanOut ==
    /\ [][\A n \in 0..MaxN, targetTaskID \in {NoString} \cup AllIDs :
            (phase = "idle" /\ phase' = "running"
             /\ ImplementStart(n, targetTaskID, "none")) =>
                LET N    == IF n >= 1 THEN n ELSE 1
                    sel  == IF targetTaskID = NoString
                            THEN {i \in 1..Len(tasks) : tasks[i].Status = "pending"}
                            ELSE {IndexOf(tasks, targetTaskID)}
                    ind  == {i \in sel : tasks[i].DependsOn = << >>}
                    free == {k \in 1..Len(units') : units'[k].base = << >>}
                IN  /\ Cardinality(free) = Cardinality(ind) * N
                    /\ \A i \in ind, x \in 1..N :
                          \E k \in free : /\ units'[k].task = tasks[i].ID
                                          /\ units'[k].suffix = <<"-">> \o Itoa(x)]_vars
    /\ [][\A k \in 1..Len(units) :
            (/\ phase = "running" /\ Len(units') = Len(units)
             /\ units[k].pc = "create" /\ units'[k].pc = "spawn"
             /\ units[k].base = << >>) =>
                LET name == units[k].task \o units[k].suffix
                IN  /\ name \notin DOMAIN worktrees
                    /\ DOMAIN worktrees' = DOMAIN worktrees \cup {name}
                    /\ worktrees'[name].branch = <<"autom8/">> \o name
                    /\ DOMAIN branches' = DOMAIN branches \cup {<<"autom8/">> \o name}
                    /\ branches'[<<"autom8/">> \o name] = << >>]_vars
    /\ []((/\ phase = "idle" /\ last.cmd = "implement" /\ units # << >>
           /\ \A k \in 1..Len(units) :
                 /\ units[k].base = << >>
                 /\ \/ units[k].res = "started"
                    \/ units[k].res = "error" /\ units[k].why = "start")
          => Cardinality({units[k].task \o units[k].suffix : k \in 1..Len(units)}
                         \cap DOMAIN worktrees) = Len(units))

\* C1 witness: a finished run of two instances of one independent task, both
\* checkouts created
C1_Witness ==
    /\ phase = "idle" /\ last.cmd = "implement" /\ Len(units) = 2
    /\ units[1].task = units[2].task
    /\ \A k \in 1..2 : /\ units[k].base = << >> /\ units[k].res = "started"
                       /\ units[k].task \o units[k].suffix \in DOMAIN worktrees

\* C2: a run with N instances over I selected independent and D selected
\* dependent tasks plans N*N units for every dependent task, whether or not its
\* parent is planned in the run: I*N + D*N*N units in all, which is also the
\* capacity of the results channel.
C2_DependentFanOut ==
    [][\A n \in 0..MaxPlanN, targetTaskID \in {NoString} \cup PlanIDs :
         (phase = "idle" /\ phase' = "running"
          /\ ImplementLaunch(n, targetTaskID, "none", PlanCap)) =>
             LET N   == IF n >= 1 THEN n ELSE 1
                 sel == IF targetTaskID = NoString
                        THEN {i \in 1..Len(tasks) : tasks[i].Status = "pending"}
                        ELSE {IndexOf(tasks, targetTaskID)}
                 dep == {i \in sel : tasks[i].DependsOn # << >>}
                 ind == sel \ dep
             IN  /\ \A i \in dep :
                       Cardinality({k \in 1..Len(units') :
                                       /\ units'[k].task = tasks[i].ID
                                       /\ units'[k].base # << >>}) = N * N
                 /\ Len(units') = Cardinality(ind) * N + Cardinality(dep) * N * N
                 /\ chanCap' = Len(units')]_vars

\* C2 witness: three pending tasks, one independent, one depending on it and
\* one depending on the dependent, launched with N = 2: 2 + 4 + 4 units
C2_Witness ==
    /\ phase = "running" /\ Len(units) = 10 /\ Len(tasks) = 3
    /\ tasks[2].DependsOn = tasks[1].ID /\ tasks[3].DependsOn = tasks[2].ID
    /\ \A i \in 1..3 : tasks[i].Status = "in-progress"

\* C3: a dependent task B whose parent A is an independent task selected in the
\* same run gets exactly the units B-i-j for i, j in 1..N, the unit B-i-j with
\* base branch autom8/A-i.
C3_ChildRootedOnParentInstance ==
    [][\A n \in 0..MaxPlanN, targetTaskID \in {NoString} \cup PlanIDs :
         (phase = "idle" /\ phase' = "running"
          /\ ImplementLaunch(n, targetTaskID, "none", PlanCap)) =>
             LET N   == IF n >= 1 THEN n ELSE 1
                 sel == IF targetTaskID = NoString
                        THEN {i \in 1..Len(tasks) : tasks[i].Status = "pending"}
                        ELSE {IndexOf(tasks, targetTaskID)}
             IN  \A b \in sel, a \in sel :
                    (tasks[b].DependsOn = tasks[a].ID /\ tasks[a].DependsOn = << >>) =>
                        LET mine == {k \in 1..Len(units') : units'[k].task = tasks[b].ID}
                        IN  /\ Cardinality(mine) = N * N
                            /\ {<<units'[k].task \o units'[k].suffix,
                                  GitBase(units'[k].base)>> : k \in mine}
                               = {<<tasks[b].ID \o <<"-">> \o Itoa(i) \o <<"-">> \o Itoa(j),
                                    <<"autom8/">> \o tasks[a].ID \o <<"-">> \o Itoa(i)>> :
                                  i \in 1..N, j \in 1..N}]_vars

\* C3 witness: parent task-1 and child task-2 planned together with N >= 2; the
\* unit task-2-2-1 is rooted on task-1-2
C3_Witness ==
    /\ phase = "running"
    /\ \E j \in 1..Len(units) : /\ units[j].task = <<"task", "-", "1">>
                                /\ units[j].suffix = <<"-", "2">>
                                /\ units[j].base = << >>
    /\ \E k \in 1..Len(units) : /\ units[k].task = <<"task", "-", "2">>
                                /\ units[k].suffix = <<"-", "2", "-", "1">>
                                /\ units[k].base = <<"task", "-", "1", "-", "2">>

\* C4: a unit whose checkout path already exists ends with a skip result, and
\* its step creates no worktree, no branch, no agent process and no liveness
\* entry: re-running implement for existing instances leaves the worktrees and
\* the branches as they were.
C4_ExistingCheckoutSkipped ==
    [][\A k \in 1..Len(units) :
         (/\ phase = "running" /\ Len(units') = Len(units)
          /\ units[k].pc = "create" /\ units'[k] # units[k]
          /\ units[k].task \o units[k].suffix \in DOMAIN worktrees) =>
             /\ units'[k].pc = "done" /\ units'[k].res = "skip"
             /\ UNCHANGED <<worktrees, branches, procs, pids>>]_vars

\* C4 witness: a finished re-run of two instances whose checkouts existed, both
\* skipped
C4_Witness ==
    /\ phase = "idle" /\ last.cmd = "implement" /\ Len(units) = 2 /\ runs = 2
    /\ \A k \in 1..2 : /\ units[k].res = "skip"
                       /\ units[k].task \o units[k].suffix \in DOMAIN worktrees

\* C5 (as the code has it): the step in which a unit fails changes that unit
\* only: the run goes on, every other unit, every worktree, branch, agent
\* process and liveness entry is as before.  A creation is refused for lack of
\* its base only when the unit has a base branch and that branch does not exist.
C5_FailureIsLocal ==
    [][\A k \in 1..Len(units) :
         (/\ phase = "running" /\ Len(units') = Len(units)
          /\ units[k].res = "" /\ units'[k].res = "error") =>
             /\ phase' = "running"
             /\ \A j \in 1..Len(units) : j # k => units'[j] = units[j]
             /\ chanLen' = chanLen + 1
             /\ UNCHANGED <<worktrees, branches, procs, pids, tasks>>
             /\ (units'[k].why = "no-base" =>
                    /\ units[k].base # << >>
                    /\ <<"autom8/">> \o units[k].base \notin DOMAIN branches)]_vars

\* C5 witness: a finished run in which one unit failed and its sibling started
\* its agent
C5_Witness ==
    /\ phase = "idle" /\ last.cmd = "implement" /\ Len(units) = 2
    /\ \E j, k \in 1..2 : /\ units[j].res = "error"
                          /\ units[k].res = "started"
                          /\ units[k].task \o units[k].suffix \in DOMAIN worktrees
                          /\ units[k].task \o units[k].suffix \in DOMAIN pids

\* C5 as stated: the failure of a unit is local and, besides, never prevents the
\* worktree of a sibling: no unit is refused its creation because the unit
\* that was to create its base branch has failed.
C5_NoSiblingPrevented ==
    /\ C5_FailureIsLocal
    /\ [][\A j, k \in 1..Len(units) :
            ~(/\ phase = "running" /\ Len(units') = Len(units)
              /\ units[j].res = "error" /\ units[j].why = "add"
              /\ units[k].base = units[j].task \o units[j].suffix
              /\ units[k].pc = "create"
              /\ units'[k].res = "error")]_vars

\* C6 as stated: after an accept that reports success, in a behaviour where no
\* step has failed, the task of the unit that created the worktree is completed
\* in the task list, for names T-i and T-i-j alike.
C6_OwnerCompleted ==
    [][\A w \in DOMAIN worktrees :
         (/\ phase = "idle" /\ last'.cmd = "accept" /\ last'.arg = w /\ last'.err = ""
          /\ w \notin DOMAIN worktrees'
          /\ faults' = 0) =>
             \A i \in 1..Len(tasks') :
                tasks'[i].ID = worktrees[w].task => tasks'[i].Status = "completed"]_vars

\* C7: over any sequence of feature, implement, accept and delete commands the
\* status of a task never goes back: pending < in-progress < completed.
C7_StatusMonotonic ==
    [][\A i \in 1..Len(tasks), j \in 1..Len(tasks') :
         (tasks[i].ID = tasks'[j].ID /\ (Len(tasks') = Len(tasks) => i = j)) =>
             Rank(tasks'[j].Status) >= Rank(tasks[i].Status)]_vars

\* C7 witness: implement was asked for a completed task, and refused
C7_Witness ==
    /\ last.cmd = "implement" /\ last.err = "completed"
    /\ \E i \in 1..Len(tasks) : tasks[i].ID = last.arg /\ tasks[i].Status = "completed"

\* C8: while the units of a run exist, from before the first one takes a step,
\* the task of every unit is stored as in-progress; an implement that failed to
\* save the task list has failed with no unit launched.
C8_MarkedBeforeLaunch ==
    /\ (phase = "running" =>
           \A k \in 1..Len(units) :
              \E i \in 1..Len(tasks) : /\ tasks[i].ID = units[k].task
                                       /\ tasks[i].Status = "in-progress")
    /\ (last.cmd = "implement" /\ last.err = "save" => phase = "idle" /\ units = << >>)

\* C8 witness: two tasks selected, the run launched and no unit has taken a
\* step yet
C8_Witness ==
    /\ phase = "running" /\ Len(units) = 2 /\ units[1].task # units[2].task
    /\ \A k \in 1..2 : units[k].pc = "create"
    /\ \A i \in 1..Len(tasks) : tasks[i].Status = "in-progress"

\* C9: an accept that fails at the merge has removed nothing: the worktree is
\* there, its branch is there, the task list is as before, and no cleanup step
\* was taken.
C9_MergeFailureKeepsAll ==
    [][(last'.cmd = "accept" /\ last'.err = "merge") =>
          /\ UNCHANGED <<worktrees, branches, tasks>>
          /\ last'.arg \in DOMAIN worktrees'
          /\ worktrees'[last'.arg].branch \in DOMAIN branches'
          /\ \A x \in 1..Len(last'.log) :
                last'.log[x] \notin {"remove", "branch-d", "warn-branch-d", "save"}]_vars

\* C9 witness: a dirty worktree was committed, then the merge failed
C9_Witness ==
    /\ last.cmd = "accept" /\ last.err = "merge"
    /\ last.log = <<"add", "commit">>
    /\ last.arg \in DOMAIN worktrees
    /\ \E i \in 1..Len(tasks) : tasks[i].Status = "in-progress"

\* C10: inside a repository, accept of a name without a checkout fails with
\* not-found after no step at all: no commit, merge, removal or branch deletion,
\* and no task changes: a completed task stays completed.
C10_AcceptUnknownName ==
    [][(last'.cmd = "accept" /\ last'.arg \notin DOMAIN worktrees) =>
          /\ last'.err \in {"notfound", "git"}
          /\ last'.log = << >>
          /\ UNCHANGED <<tasks, worktrees, branches, pids, procs>>]_vars

\* C10 witness: accept is repeated on a name that was accepted before; its
\* task is completed and stays so
C10_Witness ==
    /\ last.cmd = "accept" /\ last.err = "notfound"
    /\ \E i \in 1..Len(tasks) : /\ tasks[i].Status = "completed"
                                /\ last.arg = tasks[i].ID \o <<"-", "1">>

\* C12: delete of an id that some task names in DependsOn, with the task list
\* read, ends with the dependents error, lists the id of every task that
\* depends on it, and leaves the task list as it was.
C12_DeleteWithDependentsRefused ==
    [][(/\ last'.cmd = "delete" /\ last'.err \notin {"git", "load"}
        /\ \E i \in 1..Len(tasks) : tasks[i].DependsOn = last'.arg) =>
           LET deps == {i \in 1..Len(tasks) : tasks[i].DependsOn = last'.arg}
           IN  /\ last'.err = "dependents"
               /\ tasks' = tasks
               /\ Len(last'.log) = Cardinality(deps)
               /\ {last'.log[x] : x \in 1..Len(last'.log)} = {tasks[i].ID : i \in deps}]_vars

\* C12 witness: delete of a task two others depend on was refused, naming both
C12_Witness ==
    /\ last.cmd = "delete" /\ last.err = "dependents" /\ Len(last.log) = 2
    /\ Len(tasks) = 3 /\ tasks[1].ID = last.arg
    /\ tasks[2].ID # tasks[3].ID

\* C13: delete of the id of a task nobody depends on, with the task list read
\* and written, succeeds and removes the first task of that id and nothing
\* else: the others keep their fields and their order.
C13_DeleteRemovesExactlyOne ==
    [][(/\ last'.cmd = "delete" /\ last'.err \notin {"git", "load", "save"}
        /\ \E i \in 1..Len(tasks) : tasks[i].ID = last'.arg
        /\ ~ \E i \in 1..Len(tasks) : tasks[i].DependsOn = last'.arg) =>
           /\ last'.err = ""
           /\ Len(tasks') = Len(tasks) - 1
           /\ \E i \in 1..Len(tasks) :
                 /\ tasks[i].ID = last'.arg
                 /\ \A j \in 1..Len(tasks') :
                       tasks'[j] = IF j < i THEN tasks[j] ELSE tasks[j + 1]]_vars

\* C13 witness: the middle one of three tasks was deleted
C13_Witness ==
    /\ last.cmd = "delete" /\ last.err = "" /\ last.arg = <<"task", "-", "2">>
    /\ Len(tasks) = 2
    /\ tasks[1].ID = <<"task", "-", "1">> /\ tasks[2].ID = <<"task", "-", "3">>

\* C14: after any sequence of feature and delete commands every non-empty
\* DependsOn is the id of a task of the list; a feature naming an unknown
\* dependency adds nothing.
C14_DependenciesPresent ==
    /\ \A i \in 1..Len(tasks) :
          tasks[i].DependsOn # << >> =>
              \E j \in 1..Len(tasks) : tasks[j].ID = tasks[i].DependsOn
    /\ (last.cmd = "feature" /\ last.err = "nodep" =>
           \A j \in 1..Len(tasks) : tasks[j].ID # last.arg)

\* C14 witness: with a parent and its dependent stored, a feature naming an
\* unknown dependency was rejected
C14_Witness ==
    /\ last.cmd = "feature" /\ last.err = "nodep"
    /\ Len(tasks) = 2 /\ tasks[2].DependsOn = tasks[1].ID

\* C15 as stated: the ids of the task list are pairwise distinct, whatever
\* values the clock shows to the feature invocations.
C15_DistinctIDs ==
    \A i, j \in 1..Len(tasks) : i # j => tasks[i].ID # tasks[j].ID

\* C16 as stated: no task of the list has its own id as DependsOn.
C16_NoSelfDependency ==
    \A i \in 1..Len(tasks) : tasks[i].DependsOn # tasks[i].ID

\* C11 as stated: an accept whose `git branch -d` fails still reports success,
\* has removed the worktree, and has stored as completed the task of the unit
\* that created the worktree.
C11_BranchDeleteSoft ==
    [][\A w \in DOMAIN worktrees :
         (/\ phase = "idle" /\ last'.cmd = "accept" /\ last'.arg = w
          /\ \E x \in 1..Len(last'.log) : last'.log[x] = "warn-branch-d") =>
             /\ last'.err = ""
             /\ w \notin DOMAIN worktrees'
             /\ \A i \in 1..Len(tasks') :
                   tasks'[i].ID = worktrees[w].task => tasks'[i].Status = "completed"]_vars

\* C17 as stated: when a run of two or more units in which no step failed is
\* over, pids.json maps every instance whose unit returned [started] to the pid
\* of the agent started for it.
C17_StartedUnitsRecorded ==
    (/\ phase = "idle" /\ last.cmd = "implement" /\ last.err = ""
     /\ Len(units) >= 2 /\ faults = 0) =>
        \A k \in 1..Len(units) :
           units[k].res = "started" =>
               LET name == units[k].task \o units[k].suffix
               IN  /\ name \in DOMAIN pids
                   /\ pids[name] \in DOMAIN procs
                   /\ procs[pids[name]] = name

\* C18 as stated: status reports an instance as running only if the instance has
\* an entry with a positive pid and the agent recorded under that pid is alive.
C18_ProbeNeverFalselyRunning ==
    [][(last'.cmd = "status" /\ last'.err = "") =>
          \A w \in DOMAIN last'.log :
             last'.log[w] => /\ w \in DOMAIN pids
                             /\ pids[w] > 0
                             /\ pids[w] \in DOMAIN procs
                             /\ procs[pids[w]] = w]_vars

\* C19: outside a repository (getGitRoot fails) each of feature, delete, accept,
\* implement and status ends with an error, launches nothing, and leaves the
\* task list, pids.json, the worktrees, the branches and the processes as they
\* were.
C19_OutsideRepositoryNoMutation ==
    [][phase = "idle" =>
         LET Failed == /\ last'.err # ""
                       /\ phase' = "idle" /\ units' = << >>
                       /\ UNCHANGED <<tasks, pids, worktrees, branches, procs>>
         IN  /\ \A prompt \in {"", "p"}, dependsOn \in {NoString} \cup AllIDs :
                   RunFeature(prompt, dependsOn, "git") => Failed
             /\ \A taskID \in AllIDs : RunDelete(taskID, "git") => Failed
             /\ \A worktreeName \in AcceptArgs, dirty \in BOOLEAN :
                   RunAccept(worktreeName, dirty, "git") => Failed
             /\ \A n \in 0..MaxN, targetTaskID \in {NoString} \cup AllIDs :
                   ImplementStart(n, targetTaskID, "git") => Failed
             /\ (RunStatus("git") => Failed)]_vars

\* C19 witness: delete, which has no check of its own, failed outside the
\* repository with a task and a worktree in place
C19_Witness ==
    /\ last.cmd = "delete" /\ last.err = "git"
    /\ \E i \in 1..Len(tasks) : tasks[i].ID = last.arg
    /\ DOMAIN worktrees # {}

\* C20 as stated: a command that failed to read or write a persistence file does
\* not report success: not an accept whose load or save of the task list
\* failed, and not a unit whose entry did not reach pids.json.
C20_PersistenceFailuresSurface ==
    /\ []((last.cmd = "accept"
           /\ \E x \in 1..Len(last.log) : last.log[x] \in {"warn-load", "warn-save"})
          => last.err # "")
    /\ [][\A k \in 1..Len(units) :
            (/\ phase = "running" /\ Len(units') = Len(units)
             /\ units[k].pc = "save" /\ units'[k].res = "started") =>
                units[k].task \o units[k].suffix \in DOMAIN pids']_vars

\* C21: the set of (instance name, branch name, base branch) triples of a run is
\* a function of the task list, the target and N alone: the launch yields
\* T-i on autom8/T-i from HEAD for a selected independent task, T-i-j on
\* autom8/T-i-j from autom8/P-i for a selected task depending on P, for
\* i, j in 1..N, each triple once.
C21_PlanIsFunctionOfInputs ==
    [][\A n \in 0..MaxPlanN, targetTaskID \in {NoString} \cup PlanIDs :
         (phase = "idle" /\ phase' = "running"
          /\ ImplementLaunch(n, targetTaskID, "none", PlanCap)) =>
             LET N   == IF n >= 1 THEN n ELSE 1
                 sel == IF targetTaskID = NoString
                        THEN {i \in 1..Len(tasks) : tasks[i].Status = "pending"}
                        ELSE {IndexOf(tasks, targetTaskID)}
                 dash(i) == <<"-">> \o Itoa(i)
                 triples == {<<InstanceID(units'[k]), BranchName(InstanceID(units'[k])),
                               GitBase(units'[k].base)>> : k \in 1..Len(units')}
                 expected(t) ==
                     IF tasks[t].DependsOn = << >>
                     THEN {<<tasks[t].ID \o dash(i),
                             <<"autom8/">> \o tasks[t].ID \o dash(i),
                             << >>>> : i \in 1..N}
                     ELSE {<<tasks[t].ID \o dash(i) \o dash(j),
                             <<"autom8/">> \o tasks[t].ID \o dash(i) \o dash(j),
                             <<"autom8/">> \o tasks[t].DependsOn \o dash(i)>> :
                           i \in 1..N, j \in 1..N}
             IN  /\ triples = UNION {expected(t) : t \in sel}
                 /\ Cardinality(triples) = Len(units')]_vars

\* C21 witness: an independent task and a dependent of it launched with N = 3:
\* 3 + 9 units
C21_Witness ==
    /\ phase = "running" /\ Len(units) = 12
    /\ \E k \in 1..12 : units[k].base = << >>
    /\ \E k \in 1..12 : units[k].suffix = <<"-", "3", "-", "3">>

\* C30: in a chain A <- B <- C planned in one run, every unit of C is given a
\* base autom8/B-i, which is none of the branches autom8/B-i-j that the run
\* creates for the units of B.
C30_TwoHopFallbackMissesParent ==
    [][\A n \in 0..MaxPlanN, targetTaskID \in {NoString} \cup PlanIDs :
         (phase = "idle" /\ phase' = "running"
          /\ ImplementLaunch(n, targetTaskID, "none", PlanCap)) =>
             LET N   == IF n >= 1 THEN n ELSE 1
                 sel == IF targetTaskID = NoString
                        THEN {i \in 1..Len(tasks) : tasks[i].Status = "pending"}
                        ELSE {IndexOf(tasks, targetTaskID)}
             IN  \A a \in sel, b \in sel, c \in sel :
                    (/\ tasks[a].DependsOn = << >>
                     /\ tasks[b].DependsOn = tasks[a].ID
                     /\ tasks[c].DependsOn = tasks[b].ID) =>
                        LET ofB == {k \in 1..Len(units') : units'[k].task = tasks[b].ID}
                            ofC == {k \in 1..Len(units') : units'[k].task = tasks[c].ID}
                        IN  /\ Cardinality(ofC) = N * N
                            /\ \A k \in ofC :
                                  /\ GitBase(units'[k].base) \in
                                        {<<"autom8/">> \o tasks[b].ID \o <<"-">> \o Itoa(i) :
                                            i \in 1..N}
                                  /\ \A j \in ofB :
                                        GitBase(units'[k].base)
                                            # BranchName(InstanceID(units'[j]))]_vars

\* C30 witness: the chain task-1 <- task-2 <- task-3 launched with N = 2; a
\* unit of task-3 is rooted on task-2-1 while task-2 has the units task-2-1-1..
C30_Witness ==
    /\ phase = "running" /\ Len(units) = 10
    /\ \E k \in 1..10 : /\ units[k].task = <<"task", "-", "3">>
                        /\ units[k].base = <<"task", "-", "2", "-", "1">>
    /\ \E j \in 1..10 : /\ units[j].task = <<"task", "-", "2">>
                        /\ units[j].suffix = <<"-", "1", "-", "1">>
    /\ \A j \in 1..10 : units[j].task \o units[j].suffix # <<"task", "-", "2", "-", "1">>

\* C28: a run that launched K units ends with every unit finished, exactly one
\* result sent by each and K results reported; the channel holds K results at
\* most, never more than its capacity, and is closed only after every unit has
\* finished.
C28_RunReportsEveryUnit ==
    /\ chanLen <= chanCap
    /\ (phase = "running" => chanCap = Len(units))
    /\ (closed => \A k \in 1..Len(units) : units[k].pc = "done")
    /\ chanLen + reported = Cardinality({k \in 1..Len(units) : units[k].pc = "done"})
    /\ (phase = "idle" /\ units # << >>) =>
           /\ reported = Len(units)
           /\ \A k \in 1..Len(units) : units[k].pc = "done"

\* C29: with A and its dependent B planned in one run, a unit of B leaves its
\* checkout-creation step only when the branch of its parent instance exists.
C29_ParentBranchBeforeChildCreate ==
    [][\A k \in 1..Len(units) :
         (/\ phase = "running" /\ Len(units') = Len(units)
          /\ faults' = 0
          /\ units[k].pc = "create" /\ units'[k].pc # "create"
          /\ \E j \in 1..Len(units) : InstanceID(units[j]) = units[k].base) =>
             GitBase(units[k].base) \in DOMAIN branches]_vars

\* C22: parsing returns no winner or one of the candidates; when some line holds
\* the verdict keyword followed by a candidate's name, the name of the first
\* such verdict is returned; a name that is no candidate is never returned.
C22_ParseReturnsCandidate ==
    (last.cmd = "judge" /\ last.log.parsed) =>
        LET lines      == IF last.log.raw.kind = "envelope" THEN last.log.raw.result
                          ELSE last.log.raw.text
            candidates == last.log.candidates
            winner     == last.log.winner
            plain(w)   == SelectSeq(w, LAMBDA c : c # "*")
            verdict(i, q) == /\ q < Len(lines[i])
                             /\ plain(lines[i][q]) \in {<<"WINNER:">>, <<"Winner:">>, <<"winner:">>}
                             /\ plain(lines[i][q + 1]) \in candidates
            before(i, q, j, r) == i < j \/ (i = j /\ q <= r)
        IN  /\ winner \in {NoString} \cup candidates
            /\ \A i \in 1..Len(lines) : \A q \in 1..Len(lines[i]) :
                  (/\ verdict(i, q)
                   /\ \A j \in 1..Len(lines) : \A r \in 1..Len(lines[j]) :
                         verdict(j, r) => before(i, q, j, r)) =>
                      winner = plain(lines[i][q + 1])

\* C22 witness: two verdicts naming different candidates, the first one emphasised;
\* the first is returned
C22_Witness ==
    /\ last.cmd = "judge" /\ last.log.parsed
    /\ last.log.raw = Bare(<<<<<<"the">>, <<"*", "*", "Winner:">>,
                               <<"task", "-", "1", "-", "1", "*", "*">>>>,
                             <<<<"WINNER:">>, <<"task", "-", "1", "-", "2">>>>>>)
    /\ last.log.winner = <<"task", "-", "1", "-", "1">>

\* C23: converge asks the judge only for a task with at least two instances none
\* of which probes as running; when an instance of the task runs, the outcome is
\* "wait", the judge is not asked and no winner is set.
C23_JudgedOnlyWhenAllFinished ==
    [][(last'.cmd = "converge" /\ procs' = procs) =>
          LET mine    == {w \in DOMAIN worktrees : worktrees[w].task = last'.arg}
              running == \E w \in mine : w \in DOMAIN pids /\ pids[w] \in DOMAIN procs
          IN  /\ last'.log.judged => (Cardinality(mine) >= 2 /\ ~running)
              /\ running => /\ last'.log.outcome = "wait"
                            /\ ~last'.log.judged
                            /\ last'.log.winner = NoString
                            /\ tasks' = tasks]_vars

\* C23 witness: converge answered "wait" for a task with two instances, one of
\* them finished and one running
C23_Witness ==
    /\ last.cmd = "converge" /\ last.log.outcome = "wait"
    /\ Cardinality(Instances(last.arg)) = 2
    /\ \E w \in Instances(last.arg) : ~IsRunning(pids, w)

C25_PruneTouchesCompletedOnly ==
    [][last'.cmd = "prune" =>
          LET status(id) == tasks[CHOOSE i \in 1..Len(tasks) : tasks[i].ID = id].Status
              open       == {i \in 1..Len(tasks) : tasks[i].Status # "completed"}
          IN  /\ \A w \in DOMAIN worktrees \ DOMAIN worktrees' :
                    /\ worktrees[w].task \in IDsOf(tasks)
                    /\ status(worktrees[w].task) = "completed"
              /\ \A i \in 1..Len(tasks) :
                    (\A j \in 1..Len(tasks') : tasks'[j] # tasks[i]) =>
                        tasks[i].Status = "completed"
              /\ Len(tasks') >= Cardinality(open)
              /\ \A w \in DOMAIN worktrees :
                    (\E i \in open : worktrees[w].task = tasks[i].ID) =>
                        /\ w \in DOMAIN worktrees' /\ worktrees'[w] = worktrees[w]
                        /\ worktrees[w].branch \in DOMAIN branches'
                        /\ branches'[worktrees[w].branch] = branches[worktrees[w].branch]]_vars

\* C25 witness: a completed task and a task in progress, two instances each:
\* prune removed the two of the completed task and kept the other two
C25_Witness ==
    /\ last.cmd = "prune" /\ last.log.tasks = 1 /\ last.log.instances = 2
    /\ Len(tasks) = 1 /\ tasks[1].Status = "in-progress"
    /\ DOMAIN worktrees = {tasks[1].ID \o <<"-", "1">>, tasks[1].ID \o <<"-", "2">>}

\* C26: a prune that follows a prune removes no checkout, deletes no branch and
\* drops no task.
C26_PruneIdempotent ==
    [][(last.cmd = "prune" /\ last'.cmd = "prune") =>
          /\ tasks' = tasks
          /\ worktrees' = worktrees
          /\ branches' = branches
          /\ last'.log.tasks = 0 /\ last'.log.instances = 0]_vars

\* C26 witness: a second prune has run (it pruned nothing) after a first one
\* whose removal of an instance failed: the instance is still there, its task
\* is gone
C26_Witness ==
    /\ last.cmd = "prune" /\ last.log.tasks = 0 /\ last.log.instances = 0
    /\ \E w \in DOMAIN worktrees : worktrees[w].task \notin IDsOf(tasks)

\* C27: the loop of a unit runs no iteration after one whose output holds the
\* sentinel and, with a maximum K, at most K iterations; it goes on while
\* neither has happened, and stops as complete on the sentinel, at the limit on
\* the K-th iteration.
C27_LoopStopsOnSentinelOrLimit ==
    \A k \in 1..Len(units) :
        LET logs     == units[k].logs
            K        == units[k].max
            said(i)  == \E c \in 1..Len(logs[i]) : logs[i][c] = "TASK COMPLETE"
        IN  /\ \A i \in 1..(Len(logs) - 1) : ~said(i)
            /\ K > 0 => Len(logs) <= K
            /\ units[k].pc = "iterate" =>
                  /\ \A i \in 1..Len(logs) : ~said(i)
                  /\ K > 0 => Len(logs) < K
            /\ units[k].res = "complete" => said(Len(logs))
            /\ units[k].res = "limit" => (K > 0 /\ Len(logs) = K /\ ~said(K))

\* C27 witness: with a maximum of 3, one unit stopped on the sentinel of its
\* second iteration and another one at the limit
C27_Witness ==
    /\ Len(units) = 2
    /\ units[1].max = 3 /\ units[1].res = "complete" /\ Len(units[1].logs) = 2
    /\ units[2].res = "limit" /\ Len(units[2].logs) = 3

\* C31: implement marks the tasks it selects in-progress and no step of the run
\* writes a status again: whatever the units return, the tasks of the run stay
\* in-progress, and an implement without a target id launches units only for
\* tasks that were pending, so never again for a task of an earlier run.
C31_InProgressNeverRewritten ==
    /\ [][phase = "running" => tasks' = tasks]_vars
    /\ [][(phase = "idle" /\ phase' = "running" /\ last'.arg = NoString) =>
             \A k \in 1..Len(units') :
                 \E i \in 1..Len(tasks) : /\ tasks[i].ID = units'[k].task
                                          /\ tasks[i].Status = "pending"]_vars
    /\ [](\A k \in 1..Len(units) :
             \E i \in 1..Len(tasks) : /\ tasks[i].ID = units[k].task
                                      /\ tasks[i].Status = "in-progress")

\* C31 witness: the only unit of task-2 failed and left nothing behind, task-2
\* is in-progress, and a later implement without a target found nothing pending
C31_Witness ==
    /\ last.cmd = "implement" /\ last.arg = NoString /\ last.err = "nopending"
    /\ \E i \in 1..Len(tasks) :
          /\ tasks[i].Status = "in-progress"
          /\ \A w \in DOMAIN worktrees : worktrees[w].task # tasks[i].ID
          /\ \A q \in DOMAIN procs : ~IsPrefix(tasks[i].ID, procs[q])

\* C32: implement without a target id plans units for exactly the pending tasks
\* and leaves every other task's record as it is; the run then creates
\* worktrees and branches and starts agents for the instances of its units only.
C32_OnlyPendingSelected ==
    /\ [][(phase = "idle" /\ phase' = "running" /\ last'.arg = NoString) =>
             /\ {units'[k].task : k \in 1..Len(units')}
                    = {tasks[i].ID : i \in {j \in 1..Len(tasks) : tasks[j].Status = "pending"}}
             /\ Len(tasks') = Len(tasks)
             /\ \A i \in 1..Len(tasks) :
                   tasks[i].Status # "pending" => tasks'[i] = tasks[i]
             /\ worktrees' = worktrees /\ branches' = branches /\ procs' = procs]_vars
    /\ [][phase = "running" =>
             LET mine == {InstanceID(units[k]) : k \in 1..Len(units)}
             IN  /\ DOMAIN worktrees' \ DOMAIN worktrees \subseteq mine
                 /\ DOMAIN branches' \ DOMAIN branches \subseteq {BranchName(w) : w \in mine}
                 /\ \A q \in DOMAIN procs' \ DOMAIN procs : procs'[q] \in mine
                 /\ DOMAIN worktrees \subseteq DOMAIN worktrees'
                 /\ DOMAIN branches \subseteq DOMAIN branches']_vars

\* C32 witness: an implement without a target runs for a pending task while
\* another task, which was not pending, has no unit; the new unit
\* has created its worktree
C32_Witness ==
    /\ phase = "running" /\ last.arg = NoString
    /\ \E i \in 1..Len(tasks) : \A k \in 1..Len(units) : units[k].task # tasks[i].ID
    /\ \E k \in 1..Len(units) : InstanceID(units[k]) \in DOMAIN worktrees
                                /\ units[k].pc = "spawn"

\* C33 (as stated): implement with a target id that names a completed task or no
\* task of the list returns an error and changes nothing.
C33_BadTargetFailsCleanly ==
    [][(/\ phase = "idle" /\ last'.cmd = "implement" /\ last'.arg # NoString
        /\ \/ IndexOf(tasks, last'.arg) = 0
           \/ tasks[IndexOf(tasks, last'.arg)].Status = "completed") =>
          /\ ReturnsError(last'.err)
          /\ tasks' = tasks /\ worktrees' = worktrees /\ branches' = branches
          /\ pids' = pids /\ procs' = procs /\ phase' = "idle"]_vars

\* C33 (amended): implement with a target id changes nothing when the id names a
\* completed task or no task of the list; it returns an error then, unless the
\* list is empty: with an empty list it reports that there are no tasks and
\* returns without error.
C33_BadTargetChangesNothing ==
    [][(/\ phase = "idle" /\ last'.cmd = "implement" /\ last'.arg # NoString
        /\ \/ IndexOf(tasks, last'.arg) = 0
           \/ tasks[IndexOf(tasks, last'.arg)].Status = "completed") =>
          /\ tasks' = tasks /\ worktrees' = worktrees /\ branches' = branches
          /\ pids' = pids /\ procs' = procs /\ phase' = "idle"
          /\ IF Len(tasks) = 0 THEN last'.err = "notasks"
             ELSE IF IndexOf(tasks, last'.arg) = 0 THEN last'.err = "notfound"
             ELSE last'.err = "completed"]_vars

\* C33 witness: implement was given the id of a task that accept had completed
C33_Witness ==
    /\ last.cmd = "implement" /\ last.arg # NoString /\ last.err = "completed"
    /\ \E i \in 1..Len(tasks) : tasks[i].ID = last.arg /\ tasks[i].Status = "completed"

\* C34: accept performs auto-commit (only on a dirty worktree), merge, checkout
\* removal, branch deletion and status update in this order; a failing add,
\* commit, merge or removal ends the command with nothing later done, so a task
\* is marked completed only after its checkout was removed, and a dirty worktree
\* is merged only after its changes were committed.
C34_AcceptStepOrder ==
    [][(phase = "idle" /\ last'.cmd = "accept") =>
        \A dirty \in BOOLEAN,
           f \in {"none", "git", "branch", "status", "add", "commit", "merge", "remove",
                  "branch-d", "load", "save"} :
          (AcceptError(last'.arg, f) = last'.err /\ RunAccept(last'.arg, dirty, f)) =>
             LET log     == last'.log
                 worktreeName == last'.arg
                 has(x)  == \E i \in 1..Len(log) : log[i] = x
                 rank(x) == CASE x = "add" -> 1 [] x = "commit" -> 2 [] x = "merge" -> 3
                              [] x = "remove" -> 4
                              [] x \in {"branch-d", "warn-branch-d"} -> 5
                              [] OTHER -> 6
             IN  /\ \A i, j \in 1..Len(log) : i < j => rank(log[i]) < rank(log[j])
                 /\ has("commit") => has("add")
                 /\ (has("add") \/ has("commit")) => dirty
                 /\ (has("merge") /\ dirty) => has("commit")
                 /\ has("remove") => has("merge")
                 /\ \A i \in 1..Len(log) : rank(log[i]) >= 5 => has("remove")
                 /\ f \in {"add", "commit", "merge", "remove"} =>
                       /\ last'.err = f
                       /\ \A i \in 1..Len(log) : rank(log[i]) < rank(f)
                       /\ worktrees' = worktrees /\ branches' = branches /\ tasks' = tasks
                 /\ has("remove") <=> (worktreeName \in DOMAIN worktrees
                                       /\ worktreeName \notin DOMAIN worktrees')
                 /\ tasks' # tasks => /\ has("remove") /\ has("save")
                                      /\ worktreeName \notin DOMAIN worktrees']_vars

\* C34 witness: accept of a dirty worktree went through all its steps
C34_Witness ==
    /\ last.cmd = "accept" /\ last.err = ""
    /\ last.log = <<"add", "commit", "merge", "remove", "branch-d", "save">>
    /\ last.arg \notin DOMAIN worktrees
    /\ \E i \in 1..Len(tasks) : tasks[i].Status = "completed"

\* C35: a unit that has returned a failure leaves no checkout of its instance
\* behind; a unit that has returned "started" has its checkout, its branch and
\* an agent.
C35_CreationAllOrNothing ==
    \A k \in 1..Len(units) :
        /\ (units[k].pc = "done" /\ units[k].res = "error") =>
               InstanceID(units[k]) \notin DOMAIN worktrees
        /\ (units[k].pc = "done" /\ units[k].res = "started") =>
               /\ InstanceID(units[k]) \in DOMAIN worktrees
               /\ BranchName(InstanceID(units[k])) \in DOMAIN branches
               /\ \E q \in DOMAIN procs : procs[q] = InstanceID(units[k])

\* C36: with no lock on tasks.json, the update of a process that has saved is
\* missing from the file exactly through a stale write: another process read
\* the file before that save and wrote its own list after it.  Processes whose
\* read-to-write spans do not overlap lose nothing; the witness is the
\* interleaving in which an update is lost.
C36_LostUpdateOnlyByStaleWrite ==
    \A k \in 1..Len(units) :
        LET u       == units[k]
            st(id)  == tasks[IndexOf(tasks, id)].Status
            missing ==
                CASE u.cmd = "feature"   -> u.id \notin IDsOf(tasks)
                  [] u.cmd = "accept"    ->
                        \/ TaskID(1) \notin IDsOf(tasks)
                        \/ st(TaskID(1)) # "completed"
                  [] u.cmd = "implement" ->
                        \E i \in 1..Len(u.snap) :
                            /\ u.snap[i].Status = "pending"
                            /\ \/ u.snap[i].ID \notin IDsOf(tasks)
                               \/ st(u.snap[i].ID) = "pending"
        IN  (u.at > 0 /\ missing) =>
                \E j \in 1..Len(units) :
                    /\ j # k
                    /\ units[j].at > u.at
                    /\ units[j].ver < u.at

\* C36 witness: two feature invocations both read the empty list, both saved,
\* and the file holds one task only: the task of the first writer is missing
C36_Witness ==
    /\ \A k \in 1..Len(units) : units[k].cmd = "feature" /\ units[k].pc = "done"
    /\ Len(units) >= 2
    /\ Len(tasks) = 1
    /\ \E k \in 1..Len(units) : units[k].id \notin IDsOf(tasks)


\* C37 as stated: a status that succeeds lists every existing worktree whose
\* creating task is still in the task list, and lists it under that task: the
\* task id cut from the worktree name is the id of the task whose unit created
\* the worktree, for names T-i and T-i-j alike.
C37_StatusListsUnderOwner ==
    [][(phase = "idle" /\ last'.cmd = "status" /\ last'.err = "") =>
          \A w \in DOMAIN worktrees :
             worktrees[w].task \in IDsOf(tasks) =>
                /\ w \in DOMAIN last'.log
                /\ OwnerTaskID(w) = worktrees[w].task]_vars


\* C38 as stated: while a run of implement is under way the instance names
\* (task id followed by the suffix) of its units are pairwise distinct, so no
\* two units of the run work on the same worktree path or branch name.
C38_InstanceNamesDistinct ==
    phase = "running" =>
        \A k, l \in 1..Len(units) :
            k # l => units[k].task \o units[k].suffix # units[l].task \o units[l].suffix


\* C39 as stated: savePid never aborts the run.  A unit whose loadPids failed
\* with an error other than not-exist, or read a file holding no mapping, has
\* returned its result once its savePid has run, and a run with such a unit
\* ends only when every unit has returned and every result has been reported.
C39_SavePidNeverAborts ==
    /\ \A k \in 1..Len(units) :
          (units[k].nil /\ units[k].pc # "save") =>
              units[k].pc = "done" /\ units[k].res = "started"
    /\ (phase = "idle" /\ \E k \in 1..Len(units) : units[k].nil) =>
          /\ \A l \in 1..Len(units) : units[l].pc = "done"
          /\ reported = Len(units)

====
